---- MODULE Spec2Model ----
(***************************************************************************)
(* A model of the route registry (rsocket/routing/request_router.py), the  *)
(* routing request handler (rsocket/routing/routing_request_handler.py)    *)
(* and the request/channel responder                                       *)
(* (rsocket/handlers/request_cahnnel_responder.py) of rsocket-py.          *)
(***************************************************************************)
EXTENDS Integers, Sequences, FiniteSets, TLC

(***************************************************************************)
(* Values                                                                  *)
(***************************************************************************)

\* Python's None.  Route strings are TLA+ strings; None is a token that is not
\* one of the route strings the model draws.
None == "<None>"

\* rsocket.frame.FrameType, the five routable members.
REQUEST_RESPONSE == "REQUEST_RESPONSE"
REQUEST_FNF == "REQUEST_FNF"
REQUEST_STREAM == "REQUEST_STREAM"
REQUEST_CHANNEL == "REQUEST_CHANNEL"
METADATA_PUSH == "METADATA_PUSH"

FrameType == {REQUEST_CHANNEL, REQUEST_FNF, REQUEST_STREAM, REQUEST_RESPONSE, METADATA_PUSH}

\* The number of successful registrations one run of the model makes.
MaxRegistrations == 2

\* The routes handed to the registration decorators: None, the empty string and
\* two route strings.
RouteArguments == {None, "", "a", "b"}

\* The routes requests carry.
RequestRoutes == {"a", "b"}

\* The decorated functions.
Functions == {"f1", "f2"}

\* The parameters of a decorated function, in declaration order, each with its
\* annotation ("empty": unannotated).  f1 is the tests' handler
\* (payload, composite_metadata); f2 is a handler taking a typed payload only.
\* Handlers with other parameter lists:
\*   f3(message: Message, composite_metadata, payload: Payload)
\*   f4(payload: Payload, message: Message)
\*   f5(composite_metadata)
\*   f6(message: Message, other: Other)
signature(function) ==
    CASE function = "f1" ->
            << [name |-> "payload", annotation |-> "empty"],
               [name |-> "composite_metadata", annotation |-> "empty"] >>
      [] function = "f2" ->
            << [name |-> "message", annotation |-> "Message"] >>
      [] function = "f3" ->
            << [name |-> "message", annotation |-> "Message"],
               [name |-> "composite_metadata", annotation |-> "empty"],
               [name |-> "payload", annotation |-> "Payload"] >>
      [] function = "f4" ->
            << [name |-> "payload", annotation |-> "Payload"],
               [name |-> "message", annotation |-> "Message"] >>
      [] function = "f5" ->
            << [name |-> "composite_metadata", annotation |-> "empty"] >>
      [] OTHER ->
            << [name |-> "message", annotation |-> "Message"],
               [name |-> "other", annotation |-> "Other"] >>

\* The functions with these parameter lists.
AnnotatedFunctions == {"f1", "f2", "f3", "f4", "f5", "f6"}

\* Payloads and parsed composite metadata of requests to them.  A payload is
\* written as the class and the content, as a typed payload mapper gives it.
ArgumentPayloads == {<< "Payload", "payload1" >>, << "Payload", "payload2" >>}
ArgumentMetadata == {"composite1", "composite2"}

\* The payloads and parsed composite metadata handed to RequestRouter.route.
RoutePayloads == {"payload1"}
RouteMetadata == {"composite1"}

(***************************************************************************)
(* State of a RequestRouter                                                *)
(***************************************************************************)
VARIABLES
    _channel_routes,    \* dict route -> function
    _stream_routes,
    _response_routes,
    _fnf_routes,
    _metadata_push,
    _unknown,           \* Handlers dataclass: one fallback per frame type
    _payload_mapper,    \* "default" (lambda cls, _: _) or "typed"
    registrations,      \* successful registrations so far
    last                \* the last operation called and what it did

routerVars == << _channel_routes, _stream_routes, _response_routes, _fnf_routes,
                 _metadata_push, _unknown, _payload_mapper, registrations >>

\* rsocket.frame_helpers.safe_len: the length, 0 for None.
safe_len(value) == IF value = None THEN 0 ELSE Len(value)

\* The empty dict.
EmptyDict == [k \in {} |-> None]

\* Handlers(): every fallback None.
Handlers == [response |-> None, stream |-> None, channel |-> None,
             fire_and_forget |-> None, metadata_push |-> None]

\* decorator without the duplicate check: a second registration overwrites.
decorator_overwrites(container, r, function) ==
    IF safe_len(r) = 0
    THEN [raised |-> "RSocketEmptyRoute", container |-> container]
    ELSE [raised |-> "none", container |-> (r :> function) @@ [k \in DOMAIN container \ {r} |-> container[k]]]

\* decorator testing route == '' in place of safe_len(route) == 0: None passes.
decorator_accepts_none(container, r, function) ==
    IF r = ""
    THEN [raised |-> "RSocketEmptyRoute", container |-> container]
    ELSE IF r \in DOMAIN container
    THEN [raised |-> "KeyError", container |-> container]
    ELSE [raised |-> "none", container |-> (r :> function) @@ container]

\* decorator storing the function before it raises KeyError.
decorator_writing_before_raising(container, r, function) ==
    IF safe_len(r) = 0
    THEN [raised |-> "RSocketEmptyRoute", container |-> container]
    ELSE IF r \in DOMAIN container
    THEN [raised |-> "KeyError",
          container |-> (r :> function) @@ [k \in DOMAIN container \ {r} |-> container[k]]]
    ELSE [raised |-> "none", container |-> (r :> function) @@ container]

\* decorator_factory(container, route)(function): what the decorator raises and
\* the container it leaves.
decorator(container, r, function) ==
    IF safe_len(r) = 0
    THEN [raised |-> "RSocketEmptyRoute", container |-> container]
    ELSE IF r \in DOMAIN container
    THEN [raised |-> "KeyError", container |-> container]
    ELSE [raised |-> "none", container |-> (r :> function) @@ container]

\* RequestRouter._route_map_by_frame_type[frame_type]
_route_map_by_frame_type(frame_type) ==
    CASE frame_type = REQUEST_CHANNEL -> _channel_routes
      [] frame_type = REQUEST_FNF -> _fnf_routes
      [] frame_type = REQUEST_STREAM -> _stream_routes
      [] frame_type = REQUEST_RESPONSE -> _response_routes
      [] frame_type = METADATA_PUSH -> _metadata_push

\* RequestRouter._get_unknown_route
_get_unknown_route(frame_type) ==
    IF frame_type = REQUEST_RESPONSE THEN _unknown.response
    ELSE IF frame_type = REQUEST_STREAM THEN _unknown.stream
    ELSE IF frame_type = REQUEST_CHANNEL THEN _unknown.channel
    ELSE IF frame_type = REQUEST_FNF THEN _unknown.fire_and_forget
    ELSE IF frame_type = METADATA_PUSH THEN _unknown.metadata_push
    ELSE None

\* The payload mapper the router was built with: the default returns the
\* payload, a typed mapper returns the payload decoded as cls.
payload_mapper(cls, payload) ==
    IF _payload_mapper = "default" THEN payload ELSE << cls, payload >>

\* RequestRouter._collect_route_arguments: the keyword arguments, as the set of
\* (name, value) bindings built by the loop over the parameters.
RECURSIVE collect_from(_, _, _, _, _)
collect_from(parameters, i, payload, composite_metadata, route_kwargs) ==
    IF i > Len(parameters) THEN route_kwargs
    ELSE LET parameter == parameters[i]
         IN IF parameter.name = "composite_metadata"
            THEN collect_from(parameters, i + 1, payload, composite_metadata,
                     (parameter.name :> composite_metadata) @@ route_kwargs)
            ELSE LET mapped == IF parameter.annotation \notin {"Payload", "empty"}
                               THEN payload_mapper(parameter.annotation, payload)
                               ELSE payload
                 IN collect_from(parameters, i + 1, mapped, composite_metadata,
                        (parameter.name :> mapped) @@ route_kwargs)

_collect_route_arguments(route_processor, payload, composite_metadata) ==
    collect_from(signature(route_processor), 1, payload, composite_metadata, EmptyDict)

\* route looking at the fallback before the route table.
route_prefers_unknown(frame_type, r, payload, composite_metadata) ==
    LET route_processor ==
            IF _get_unknown_route(frame_type) # None
            THEN _get_unknown_route(frame_type)
            ELSE IF r \in DOMAIN _route_map_by_frame_type(frame_type)
            THEN _route_map_by_frame_type(frame_type)[r]
            ELSE None
    IN IF route_processor = None
       THEN [raised |-> "RSocketUnknownRoute", calls |-> << >>]
       ELSE [raised |-> "none",
             calls |-> << [function |-> route_processor,
                           kwargs |-> _collect_route_arguments(route_processor, payload,
                                                               composite_metadata)] >>]

\* RequestRouter.route: the exception raised ("none": returned) and the calls
\* made to decorated functions.
route(frame_type, r, payload, composite_metadata) ==
    LET route_processor ==
            IF r \in DOMAIN _route_map_by_frame_type(frame_type)
            THEN _route_map_by_frame_type(frame_type)[r]
            ELSE _get_unknown_route(frame_type)
    IN IF route_processor = None
       THEN [raised |-> "RSocketUnknownRoute", calls |-> << >>]
       ELSE [raised |-> "none",
             calls |-> << [function |-> route_processor,
                           kwargs |-> _collect_route_arguments(route_processor, payload,
                                                               composite_metadata)] >>]

(***************************************************************************)
(* Operations of a RequestRouter                                           *)
(***************************************************************************)

Registered(op, r, function, raised) ==
    /\ last' = [op |-> op, frame_type |-> None, route |-> r, function |-> function,
                raised |-> raised, calls |-> << >>]
    /\ registrations' = IF raised = "none" THEN registrations + 1 ELSE registrations

CanRegister(container, r) ==
    decorator(container, r, "f1").raised = "none" => registrations < MaxRegistrations

response(r, function) ==
    /\ CanRegister(_response_routes, r)
    /\ LET d == decorator(_response_routes, r, function)
       IN /\ _response_routes' = d.container
          /\ Registered("response", r, function, d.raised)
    /\ UNCHANGED << _channel_routes, _stream_routes, _fnf_routes, _metadata_push,
                    _unknown, _payload_mapper >>

\* stream looking for the route in the routes of request/response as well.
stream_checking_response_routes(r, function) ==
    /\ CanRegister(_stream_routes, r)
    /\ LET d == decorator(_stream_routes, r, function)
           other == decorator(_response_routes, r, function)
       IN IF other.raised = "none"
          THEN /\ _stream_routes' = d.container
               /\ Registered("stream", r, function, d.raised)
          ELSE /\ _stream_routes' = _stream_routes
               /\ Registered("stream", r, function, other.raised)
    /\ UNCHANGED << _channel_routes, _response_routes, _fnf_routes, _metadata_push,
                    _unknown, _payload_mapper >>

stream(r, function) ==
    /\ CanRegister(_stream_routes, r)
    /\ LET d == decorator(_stream_routes, r, function)
       IN /\ _stream_routes' = d.container
          /\ Registered("stream", r, function, d.raised)
    /\ UNCHANGED << _channel_routes, _response_routes, _fnf_routes, _metadata_push,
                    _unknown, _payload_mapper >>

channel(r, function) ==
    /\ CanRegister(_channel_routes, r)
    /\ LET d == decorator(_channel_routes, r, function)
       IN /\ _channel_routes' = d.container
          /\ Registered("channel", r, function, d.raised)
    /\ UNCHANGED << _stream_routes, _response_routes, _fnf_routes, _metadata_push,
                    _unknown, _payload_mapper >>

fire_and_forget(r, function) ==
    /\ CanRegister(_fnf_routes, r)
    /\ LET d == decorator(_fnf_routes, r, function)
       IN /\ _fnf_routes' = d.container
          /\ Registered("fire_and_forget", r, function, d.raised)
    /\ UNCHANGED << _channel_routes, _stream_routes, _response_routes, _metadata_push,
                    _unknown, _payload_mapper >>

metadata_push(r, function) ==
    /\ CanRegister(_metadata_push, r)
    /\ LET d == decorator(_metadata_push, r, function)
       IN /\ _metadata_push' = d.container
          /\ Registered("metadata_push", r, function, d.raised)
    /\ UNCHANGED << _channel_routes, _stream_routes, _response_routes, _fnf_routes,
                    _unknown, _payload_mapper >>

RegisteredUnknown(op, function) ==
    /\ registrations < MaxRegistrations
    /\ last' = [op |-> op, frame_type |-> None, route |-> None, function |-> function,
                raised |-> "none", calls |-> << >>]
    /\ registrations' = registrations + 1
    /\ UNCHANGED << _channel_routes, _stream_routes, _response_routes, _fnf_routes,
                    _metadata_push, _payload_mapper >>

\* response_unknown keeping a fallback that is already there.
response_unknown_keeping_first(function) ==
    /\ _unknown' = IF _unknown.response = None
                   THEN [_unknown EXCEPT !.response = function] ELSE _unknown
    /\ RegisteredUnknown("response_unknown", function)

response_unknown(function) ==
    /\ _unknown' = [_unknown EXCEPT !.response = function]
    /\ RegisteredUnknown("response_unknown", function)

stream_unknown(function) ==
    /\ _unknown' = [_unknown EXCEPT !.stream = function]
    /\ RegisteredUnknown("stream_unknown", function)

channel_unknown(function) ==
    /\ _unknown' = [_unknown EXCEPT !.channel = function]
    /\ RegisteredUnknown("channel_unknown", function)

fire_and_forget_unknown(function) ==
    /\ _unknown' = [_unknown EXCEPT !.fire_and_forget = function]
    /\ RegisteredUnknown("fire_and_forget_unknown", function)

metadata_push_unknown(function) ==
    /\ _unknown' = [_unknown EXCEPT !.metadata_push = function]
    /\ RegisteredUnknown("metadata_push_unknown", function)

\* A call of RequestRouter.route.
Route(frame_type, r, payload, composite_metadata) ==
    /\ LET d == route(frame_type, r, payload, composite_metadata)
       IN last' = [op |-> "route", frame_type |-> frame_type, route |-> r,
                   function |-> None, raised |-> d.raised, calls |-> d.calls,
                   payload |-> payload, composite_metadata |-> composite_metadata]
    /\ UNCHANGED routerVars

\* RequestRouter.__init__: empty tables, no fallbacks, the payload mapper given.
RouterInit ==
    /\ _channel_routes = EmptyDict
    /\ _stream_routes = EmptyDict
    /\ _response_routes = EmptyDict
    /\ _fnf_routes = EmptyDict
    /\ _metadata_push = EmptyDict
    /\ _unknown = Handlers
    /\ _payload_mapper \in {"default", "typed"}
    /\ registrations = 0

(***************************************************************************)
(* RoutingRequestHandler                                                   *)
(***************************************************************************)

\* An attribute named in __slots__ that was never assigned.
Unset == "<unset>"

\* WellKnownMimeTypes.MESSAGE_RSOCKET_COMPOSITE_METADATA.value.name
MESSAGE_RSOCKET_COMPOSITE_METADATA == "message/x.rsocket.composite-metadata.v0"

\* The mime types a setup frame names.
MetadataEncodings == {MESSAGE_RSOCKET_COMPOSITE_METADATA, "message/x.rsocket.routing.v0",
                      "application/json"}
DataEncodings == {"application/json", "application/octet-stream"}

\* The authentication_verifier argument: None, the default
\* always_allow_authenticator, or an authenticator that raises for the
\* credentials "bad".
Verifiers == {None, "always_allow_authenticator", "authenticator",
              "authenticator(authentication)"}

\* An Optional[int] or Optional[timedelta] argument: Nothing is Python's None
\* where the other values are numbers, Some(v) a value given.
Nothing == << >>
Some(v) == << v >>

\* The lease_ttl (a timedelta, in whole seconds) and lease_max_requests arguments.
LeaseTtls == {Nothing, Some(1), Some(30)}
LeaseMaxRequests == {Nothing, Some(5), Some(10)}

\* The number of calls of supply_lease in one run.
MaxLeases == 2

VARIABLES
    authentication_verifier,
    _lease_ttl,
    _lease_max_requests,
    data_encoding,
    metadata_encoding,
    base_on_setup,      \* calls of BaseRequestHandler.on_setup
    setup_frames,       \* SETUP frames handed to on_setup (one per connection)
    sent_frames         \* frames handed to socket.send_frame

handlerVars == << authentication_verifier, _lease_ttl, _lease_max_requests,
                  data_encoding, metadata_encoding, base_on_setup, setup_frames,
                  sent_frames >>

\* RoutingRequestHandler.__init__
HandlerInit ==
    /\ authentication_verifier \in Verifiers
    /\ _lease_ttl \in LeaseTtls
    /\ _lease_max_requests \in LeaseMaxRequests
    /\ data_encoding = Unset
    /\ metadata_encoding = Unset
    /\ base_on_setup = 0
    /\ setup_frames = 0
    /\ sent_frames = << >>

\* rsocket.helpers.to_milliseconds of a timedelta of whole seconds.
to_milliseconds(seconds) == seconds * 1000

\* supply_lease testing lease_ttl alone.
supply_lease_with_ttl_alone ==
    /\ Len(sent_frames) < MaxLeases
    /\ IF _lease_ttl # Nothing
       THEN sent_frames' = Append(sent_frames,
                [type |-> "LEASE",
                 number_of_requests |-> IF _lease_max_requests = Nothing THEN 0
                                        ELSE _lease_max_requests[1],
                 time_to_live |-> to_milliseconds(_lease_ttl[1])])
       ELSE sent_frames' = sent_frames
    /\ last' = [op |-> "supply_lease", raised |-> "none"]
    /\ UNCHANGED << authentication_verifier, _lease_ttl, _lease_max_requests,
                    data_encoding, metadata_encoding, base_on_setup, setup_frames >>

\* RoutingRequestHandler.supply_lease
supply_lease ==
    /\ Len(sent_frames) < MaxLeases
    /\ IF _lease_ttl # Nothing /\ _lease_max_requests # Nothing
       THEN sent_frames' = Append(sent_frames,
                [type |-> "LEASE", number_of_requests |-> _lease_max_requests[1],
                 time_to_live |-> to_milliseconds(_lease_ttl[1])])
       ELSE sent_frames' = sent_frames
    /\ last' = [op |-> "supply_lease", raised |-> "none"]
    /\ UNCHANGED << authentication_verifier, _lease_ttl, _lease_max_requests,
                    data_encoding, metadata_encoding, base_on_setup, setup_frames >>

\* on_setup storing the encodings before it tests the mime type.
on_setup_stores_first(data_enc, metadata_enc) ==
    /\ setup_frames = 0
    /\ setup_frames' = 1
    /\ data_encoding' = data_enc
    /\ metadata_encoding' = metadata_enc
    /\ IF metadata_enc # MESSAGE_RSOCKET_COMPOSITE_METADATA
       THEN /\ last' = [op |-> "on_setup", data_encoding |-> data_enc,
                        metadata_encoding |-> metadata_enc, raised |-> "Exception"]
            /\ UNCHANGED base_on_setup
       ELSE /\ base_on_setup' = base_on_setup + 1
            /\ last' = [op |-> "on_setup", data_encoding |-> data_enc,
                        metadata_encoding |-> metadata_enc, raised |-> "none"]
    /\ UNCHANGED << authentication_verifier, _lease_ttl, _lease_max_requests, sent_frames >>

\* RoutingRequestHandler.on_setup, called for the connection's one SETUP frame.
on_setup(data_enc, metadata_enc) ==
    /\ setup_frames = 0
    /\ setup_frames' = 1
    /\ IF metadata_enc # MESSAGE_RSOCKET_COMPOSITE_METADATA
       THEN /\ last' = [op |-> "on_setup", data_encoding |-> data_enc,
                        metadata_encoding |-> metadata_enc, raised |-> "Exception"]
            /\ UNCHANGED << data_encoding, metadata_encoding, base_on_setup >>
       ELSE /\ data_encoding' = data_enc
            /\ metadata_encoding' = metadata_enc
            /\ base_on_setup' = base_on_setup + 1
            /\ last' = [op |-> "on_setup", data_encoding |-> data_enc,
                        metadata_encoding |-> metadata_enc, raised |-> "none"]
    /\ UNCHANGED << authentication_verifier, _lease_ttl, _lease_max_requests, sent_frames >>

(***************************************************************************)
(* RoutingRequestHandler: requests                                         *)
(***************************************************************************)

\* The entries of a composite metadata: ROUTING entries with their tags,
\* AUTHENTICATION entries with their credentials, and an entry of another
\* mime type.
Routing(tags) == [kind |-> "RoutingMetadata", content |-> tags]
Authentication(credentials) == [kind |-> "AuthenticationContent", content |-> credentials]
OtherItem == [kind |-> "CompositeMetadataItem", content |-> << >>]

\* The metadata of a request: the bytes of a composite metadata holding the
\* given entries (the tests send the first), or bytes that do not parse.
CompositeMetadataItems ==
    { << Routing(<< "a" >>) >>,
      << Routing(<< "b" >>) >>,
      << Routing(<< "b", "a" >>) >>,
      << Routing(<< "b" >>), Routing(<< "a" >>) >>,
      << Routing(<< "a" >>), Authentication(<< "simple", "good" >>) >>,
      << Routing(<< "a" >>), Authentication(<< "simple", "bad" >>) >>,
      << Routing(<< "b" >>), Authentication(<< "simple", "good" >>) >>,
      << Routing(<< "b" >>), Authentication(<< "simple", "bad" >>) >>,
      << Authentication(<< "simple", "bad" >>), Routing(<< "a" >>) >>,
      << Routing(<< "a" >>), Authentication(<< "simple", "good" >>),
         Authentication(<< "simple", "bad" >>) >>,
      << Routing(<< "a" >>), Authentication(<< "simple", "bad" >>),
         Authentication(<< "simple", "good" >>) >>,
      << OtherItem, Routing(<< "a" >>), Authentication(<< "simple", "good" >>) >>,
      << Authentication(<< "simple", "good" >>) >>,
      << OtherItem >>,
      << >> }

MetadataBytes ==
    {[well_formed |-> TRUE, items |-> q] : q \in CompositeMetadataItems}
        \cup {[well_formed |-> FALSE, items |-> << >>]}

\* The payloads of requests.
RequestData == {"request data"}
Payloads == {[data |-> d, metadata |-> m] : d \in RequestData, m \in MetadataBytes}

\* CompositeMetadata.parse
parse(metadata) ==
    IF metadata.well_formed
    THEN [raised |-> "none", items |-> metadata.items]
    ELSE [raised |-> "ParseError", items |-> << >>]

\* The index of the first entry of a kind, 0 when there is none
\* (for item in composite_metadata.items: if isinstance(item, kind)).
FirstOfKind(items, kind) ==
    IF \E i \in 1..Len(items) : items[i].kind = kind
    THEN CHOOSE i \in 1..Len(items) :
            /\ items[i].kind = kind
            /\ \A j \in 1..(i - 1) : items[j].kind # kind
    ELSE 0

\* _require_route that goes through all the entries and keeps the last ROUTING
\* entry it sees.
_require_route_last_entry(items) ==
    LET routing == {i \in 1..Len(items) : items[i].kind = "RoutingMetadata"}
    IN IF routing = {} THEN [raised |-> "No route found in request", route |-> None]
       ELSE LET i == CHOOSE i \in routing : \A j \in routing : j <= i
            IN IF Len(items[i].content) = 0 THEN [raised |-> "IndexError", route |-> None]
               ELSE [raised |-> "none", route |-> items[i].content[1]]

\* RoutingRequestHandler._require_route
_require_route(items) ==
    LET i == FirstOfKind(items, "RoutingMetadata")
    IN IF i = 0 THEN [raised |-> "No route found in request", route |-> None]
       ELSE IF Len(items[i].content) = 0 THEN [raised |-> "IndexError", route |-> None]
       ELSE [raised |-> "none", route |-> items[i].content[1]]

\* A call verifier(route, authentication).  always_allow_authenticator
\* returns; "authenticator" takes (route, authentication) and raises for the
\* credentials "bad"; "authenticator(authentication)" takes one parameter, so
\* the call with two positional arguments raises TypeError.
verify(verifier, r, authentication) ==
    IF verifier = "authenticator(authentication)"
    THEN "TypeError: authenticator() takes 1 positional argument but 2 were given"
    ELSE IF verifier = "authenticator" /\ authentication = << "simple", "bad" >>
    THEN "Authentication error"
    ELSE "none"

\* The call of the verifier, as an event.
VerifyEvent(r, authentication) ==
    [event |-> "verify", route |-> r, authentication |-> authentication]

\* _verify_authentication that goes on when the verifier raises.
_verify_authentication_ignoring_failure(r, items) ==
    IF authentication_verifier # None
    THEN LET i == FirstOfKind(items, "AuthenticationContent")
         IN IF i = 0
            THEN [raised |-> "Authentication required but not provided", events |-> << >>]
            ELSE [raised |-> "none", events |-> << VerifyEvent(r, items[i].content) >>]
    ELSE [raised |-> "none", events |-> << >>]

\* _verify_authentication that lets a request without authentication through.
_verify_authentication_optional(r, items) ==
    LET i == FirstOfKind(items, "AuthenticationContent")
    IN IF authentication_verifier # None /\ i # 0
       THEN [raised |-> verify(authentication_verifier, r, items[i].content),
             events |-> << VerifyEvent(r, items[i].content) >>]
       ELSE [raised |-> "none", events |-> << >>]

\* _verify_authentication without the return in its loop: the verifier is
\* called for every AUTHENTICATION entry.
_verify_authentication_every_entry(r, items) ==
    IF authentication_verifier # None
    THEN LET i == FirstOfKind(items, "AuthenticationContent")
             entries == SelectSeq(items, LAMBDA item : item.kind = "AuthenticationContent")
         IN IF i = 0
            THEN [raised |-> "Authentication required but not provided", events |-> << >>]
            ELSE [raised |-> verify(authentication_verifier, r, items[i].content),
                  events |-> [k \in 1..Len(entries) |-> VerifyEvent(r, entries[k].content)]]
    ELSE [raised |-> "none", events |-> << >>]

\* RoutingRequestHandler._verify_authentication: what it raises and the calls
\* of the verifier it makes.
_verify_authentication(r, items) ==
    IF authentication_verifier # None
    THEN LET i == FirstOfKind(items, "AuthenticationContent")
         IN IF i = 0
            THEN [raised |-> "Authentication required but not provided", events |-> << >>]
            ELSE [raised |-> verify(authentication_verifier, r, items[i].content),
                  events |-> << VerifyEvent(r, items[i].content) >>]
    ELSE [raised |-> "none", events |-> << >>]

\* A call self.router.route(*arguments): RequestRouter.route takes frame_type,
\* route, payload and composite_metadata, and a call with another number of
\* positional arguments raises TypeError before the coroutine is made.
call_route(arguments) ==
    IF Len(arguments) # 4
    THEN [raised |-> "TypeError", calls |-> << >>]
    ELSE route(arguments[1], arguments[2], arguments[3], arguments[4])

\* The events of the calls route made, and what the function called returned.
CallEvents(calls) ==
    [i \in 1..Len(calls) |-> [event |-> "call", function |-> calls[i].function,
                              kwargs |-> calls[i].kwargs]]

Returned(calls) ==
    IF Len(calls) = 0 THEN None ELSE calls[Len(calls)].function

\* The call self.router.route(...), as an event.
RouteEvent(r) == [event |-> "router.route", route |-> r]

\* _parse_and_route that calls router.route before _verify_authentication.
_parse_and_route_routes_first(payload) ==
    LET composite_metadata == parse(payload.metadata)
    IN IF composite_metadata.raised # "none"
       THEN [raised |-> composite_metadata.raised, returned |-> None, events |-> << >>]
       ELSE
       LET required == _require_route(composite_metadata.items)
       IN IF required.raised # "none"
          THEN [raised |-> required.raised, returned |-> None, events |-> << >>]
          ELSE
          LET routed == call_route(<< required.route, payload, composite_metadata.items >>)
              verified == _verify_authentication(required.route, composite_metadata.items)
          IN [raised |-> IF routed.raised # "none" THEN routed.raised ELSE verified.raised,
              returned |-> Returned(routed.calls),
              events |-> << RouteEvent(required.route) >> \o CallEvents(routed.calls)
                         \o (IF routed.raised # "none" THEN << >> ELSE verified.events)]

\* RoutingRequestHandler._parse_and_route: the exception it raises ("none": it
\* returns), the value it returns (the function whose result it is) and the
\* verifier, router and function calls made, in order.
_parse_and_route(payload) ==
    LET composite_metadata == parse(payload.metadata)
    IN IF composite_metadata.raised # "none"
       THEN [raised |-> composite_metadata.raised, returned |-> None, events |-> << >>]
       ELSE
       LET required == _require_route(composite_metadata.items)
       IN IF required.raised # "none"
          THEN [raised |-> required.raised, returned |-> None, events |-> << >>]
          ELSE
          LET verified == _verify_authentication(required.route, composite_metadata.items)
          IN IF verified.raised # "none"
             THEN [raised |-> verified.raised, returned |-> None, events |-> verified.events]
             ELSE
             LET routed == call_route(<< required.route, payload, composite_metadata.items >>)
             IN [raised |-> routed.raised,
                 returned |-> Returned(routed.calls),
                 events |-> verified.events \o << RouteEvent(required.route) >>
                            \o CallEvents(routed.calls)]

\* What an entry point hands back to the connection: the value it returns,
\* the exception that value carries when it is an error future or an
\* ErrorStream ("none" otherwise), the function whose result it is, and the
\* calls made on the way.
Result(value, exception, outcome) ==
    [value |-> value, exception |-> exception, returned |-> outcome.returned,
     events |-> outcome.events]

\* try: return <outcome> / except Exception as exception: return <handled>
TryExcept(outcome, returned, handled) ==
    IF outcome.raised = "none"
    THEN Result(returned, "none", outcome)
    ELSE Result(handled, outcome.raised, outcome)

\* request_fire_and_forget that hands the exception back as request_response does.
request_fire_and_forget_returning_error(payload) ==
    TryExcept(_parse_and_route(payload), "None", "error future")

\* request_stream that lets the exception of _parse_and_route escape.
request_stream_raising(payload) ==
    TryExcept(_parse_and_route(payload), "returned", "raised")

\* RoutingRequestHandler.request_channel
request_channel(payload) ==
    TryExcept(_parse_and_route(payload), "returned", "ErrorStream, NullSubscriber")

\* RoutingRequestHandler.request_fire_and_forget
request_fire_and_forget(payload) ==
    TryExcept(_parse_and_route(payload), "None", "None (error logged)")

\* RoutingRequestHandler.request_response
request_response(payload) ==
    TryExcept(_parse_and_route(payload), "returned", "error future")

\* RoutingRequestHandler.request_stream
request_stream(payload) ==
    TryExcept(_parse_and_route(payload), "returned", "ErrorStream")

\* BaseRequestHandler.on_metadata_push, which RoutingRequestHandler inherits: it
\* does nothing with the payload.
on_metadata_push(payload) ==
    [value |-> "None", exception |-> "none", returned |-> None, events |-> << >>]

\* A call of an entry point of the handler, none of which raises.
Handle(op, payload, result) ==
    /\ last' = [op |-> op, payload |-> payload, raised |-> "none", value |-> result.value,
                exception |-> result.exception, returned |-> result.returned,
                events |-> result.events]
    /\ UNCHANGED handlerVars

\* The routers a handler is built on: route "a" registered with f1 for one
\* frame type at most, and the fallback f2 set for one frame type at most.
RegisteredTables == {EmptyDict, "a" :> "f1"}
Fallbacks == {None, "f2"}

RouterBuilt ==
    /\ \E named \in FrameType \cup {None} :
          /\ _response_routes = IF named = REQUEST_RESPONSE THEN "a" :> "f1" ELSE EmptyDict
          /\ _stream_routes = IF named = REQUEST_STREAM THEN "a" :> "f1" ELSE EmptyDict
          /\ _channel_routes = IF named = REQUEST_CHANNEL THEN "a" :> "f1" ELSE EmptyDict
          /\ _fnf_routes = IF named = REQUEST_FNF THEN "a" :> "f1" ELSE EmptyDict
          /\ _metadata_push = IF named = METADATA_PUSH THEN "a" :> "f1" ELSE EmptyDict
          /\ \E fallback \in FrameType \cup {None} :
                /\ _unknown = [response |-> IF fallback = REQUEST_RESPONSE THEN "f2" ELSE None,
                               stream |-> IF fallback = REQUEST_STREAM THEN "f2" ELSE None,
                               channel |-> IF fallback = REQUEST_CHANNEL THEN "f2" ELSE None,
                               fire_and_forget |-> IF fallback = REQUEST_FNF THEN "f2" ELSE None,
                               metadata_push |-> IF fallback = METADATA_PUSH THEN "f2" ELSE None]
                /\ registrations = (IF named = None THEN 0 ELSE 1)
                                   + (IF fallback = None THEN 0 ELSE 1)
    /\ _payload_mapper = "default"

(***************************************************************************)
(* A connection: one client, one server, the frames between them           *)
(***************************************************************************)

\* The number of items a publisher produces, at most.
MaxItems == 3

\* The credit window (request_limit) of a requester, at most.
MaxRequestLimit == 2

\* The initial_request_n of a requester that sets no request limit.
MAX_REQUEST_N == 2147483647

\* A payload; NoMetadata is metadata=None.
NoMetadata == [absent |-> TRUE]
Payload(data, metadata) == [data |-> data, metadata |-> metadata]
EmptyPayload == Payload(None, NoMetadata)

\* The items the tests' generators yield.
FeedItem(x) ==
    CASE x = 0 -> "Feed Item: 0"
      [] x = 1 -> "Feed Item: 1"
      [] x = 2 -> "Feed Item: 2"
      [] x = 3 -> "Feed Item: 3"
      [] OTHER -> "Feed Item: 4"

Feed(count) == [x \in 1..count |-> Payload(FeedItem(x - 1), NoMetadata)]

\* The payloads sent_payloads of the channel test: b'1', b'2', b'3', ...
SentMessage(x) ==
    CASE x = 1 -> "1"
      [] x = 2 -> "2"
      [] x = 3 -> "3"
      [] OTHER -> "4"

sent_payloads(count) == [x \in 1..count |-> Payload(SentMessage(x), NoMetadata)]

\* Publishers.  A generator publisher yields one item per unit of demand: with
\* "complete on last" the last item is flagged complete; with "complete" or
\* "error" the generator returns or raises when it is pulled after the last
\* item.  An observable signals "on_completed" after its last item.
\* ErrorStream, an errored observable and a future holding an exception signal
\* the error when subscribed.
StreamFromGenerator(count) ==
    [items |-> Feed(count),
     ending |-> IF count = 0 THEN "complete" ELSE "complete on last",
     message |-> "none"]
FailingGenerator(count) ==
    [items |-> Feed(count), ending |-> "error", message |-> "Some error from responder"]
SimpleCompleted == [items |-> << >>, ending |-> "complete", message |-> "none"]
from_list(payloads) == [items |-> payloads, ending |-> "on_completed", message |-> "none"]
ErrorStream(exception) ==
    [items |-> << >>, ending |-> "error on subscribe", message |-> exception]
Future(payload) == [items |-> << payload >>, ending |-> "complete on last", message |-> "none"]
NoPublisher == [items |-> << >>, ending |-> "absent", message |-> "none"]

\* Subscribers, by what they request: `limit` items when subscribed and, when
\* they replenish, `limit` more after every `limit` items.
NoSubscriber == [present |-> FALSE, limit |-> 0, replenish |-> FALSE]
DefaultSubscriber == [present |-> TRUE, limit |-> 0, replenish |-> FALSE]
Unlimited == [present |-> TRUE, limit |-> MAX_REQUEST_N, replenish |-> FALSE]
RequestLimit(n) == [present |-> TRUE, limit |-> n, replenish |-> TRUE]
ResponderSubscriber == RequestLimit(1)

\* Frames.  Client-initiated streams have odd ids from 1; the model opens one.
StreamId == 1

RequestFrame(type, payload, initial_request_n, complete) ==
    [type |-> type, stream_id |-> StreamId, payload |-> payload,
     initial_request_n |-> initial_request_n, flags_complete |-> complete]
MetadataPushFrame(metadata) ==
    [type |-> METADATA_PUSH, stream_id |-> 0, payload |-> Payload(None, metadata)]
PayloadFrame(payload, next, complete) ==
    [type |-> "PAYLOAD", stream_id |-> StreamId, payload |-> payload,
     flags_next |-> next, flags_complete |-> complete]
ErrorFrame(message) == [type |-> "ERROR", stream_id |-> StreamId, message |-> message]
RequestNFrame(n) == [type |-> "REQUEST_N", stream_id |-> StreamId, request_n |-> n]

VARIABLES
    handler_factory,        \* the server's handler: "RoutingRequestHandler" or a "Handler"
    responses,              \* the publisher the server's "Handler" returns
    responder_subscriber,   \* the subscriber the server's "Handler" returns
    to_server,              \* frames in flight, client to server
    to_client,              \* frames in flight, server to client
    requester,              \* the client's stream entry
    responder,              \* the server's stream entry
    handler_calls,          \* the calls of route functions made on the server
    logged                  \* errors the server logged

connectionVars == << handler_factory, responses, responder_subscriber, to_server,
                     to_client, requester, responder, handler_calls, logged >>

\* A stream entry: none yet.  publisher, emitted and demand are the local
\* publisher and its subscription; subscriber, received and signals are the
\* subscriber of the remote publisher.
NoStream ==
    [type |-> None, state |-> "none", payload |-> EmptyPayload,
     publisher |-> NoPublisher, emitted |-> 0, demand |-> 0,
     sent_complete |-> FALSE, received_complete |-> FALSE,
     subscriber |-> NoSubscriber, received |-> 0, signals |-> << >>,
     credits_received |-> 0, next_sent |-> 0]

\* What the tests' route functions return for a frame type.
RoutePublisher(frame_type) ==
    CASE frame_type = REQUEST_RESPONSE -> Future(Payload("result", NoMetadata))
      [] frame_type = REQUEST_STREAM -> StreamFromGenerator(3)
      [] frame_type = REQUEST_CHANNEL -> StreamFromGenerator(3)
      [] OTHER -> NoPublisher

\* The calls of route functions among the events of an entry point.
CallsOf(events) == SelectSeq(events, LAMBDA e : e.event = "call")

(* Stream entries *)

\* The credit a frame grants to the side that receives it: the
\* initial_request_n of a REQUEST_STREAM or REQUEST_CHANNEL frame, the n of a
\* REQUEST_N frame.
granted(frame) ==
    CASE frame.type \in {REQUEST_STREAM, REQUEST_CHANNEL} -> frame.initial_request_n
      [] frame.type = "REQUEST_N" -> frame.request_n
      [] OTHER -> 0

\* The number of PAYLOAD frames with the NEXT flag among frames.
payloads_next(frames) ==
    Cardinality({i \in 1..Len(frames) :
                    frames[i].type = "PAYLOAD" /\ frames[i].flags_next})

\* A stream entry with the frame it has received and the frames it has sent
\* counted: the credit received so far and the PAYLOAD(NEXT) frames sent so far.
Accounted(entry, frames_received, frames_sent) ==
    [entry EXCEPT
        !.credits_received = @ + (IF frames_received = << >> THEN 0
                                  ELSE granted(frames_received[1])),
        !.next_sent = @ + payloads_next(frames_sent)]

\* subscriber.on_next, on_complete, on_error: signals for the entry's subscriber.
Deliver(entry, signals) ==
    IF entry.subscriber.present THEN [entry EXCEPT !.signals = @ \o signals] ELSE entry

\* mark_completed_and_finish(received, sent): the stream is finished when both
\* directions are complete.
mark_completed_and_finish(entry, received, sent) ==
    LET marked == [entry EXCEPT !.received_complete = @ \/ received,
                                !.sent_complete = @ \/ sent]
    IN IF marked.received_complete /\ marked.sent_complete
       THEN [marked EXCEPT !.state = "finished"]
       ELSE marked

\* _complete_remote_subscriber
_complete_remote_subscriber(entry) ==
    mark_completed_and_finish(Deliver(entry, << [signal |-> "on_complete"] >>), TRUE, FALSE)

\* The common frame_received with a subscriber that never sends REQUEST_N after
\* its first request.
super_frame_received_without_replenishing(entry, frame) ==
    CASE frame.type = "REQUEST_N" ->
            [entry |-> [entry EXCEPT !.demand = @ + frame.request_n], sent |-> << >>]
      [] frame.type = "ERROR" ->
            [entry |-> [Deliver(entry,
                            << [signal |-> IF entry.type = REQUEST_RESPONSE
                                           THEN "set_exception" ELSE "on_error",
                                message |-> frame.message] >>)
                        EXCEPT !.state = "finished"],
             sent |-> << >>]
      [] frame.type = "PAYLOAD" /\ entry.type = REQUEST_RESPONSE ->
            [entry |-> mark_completed_and_finish(
                           Deliver(entry, << [signal |-> "set_result",
                                              payload |-> IF frame.flags_next
                                                          THEN frame.payload
                                                          ELSE EmptyPayload] >>),
                           TRUE, FALSE),
             sent |-> << >>]
      [] OTHER ->
            LET delivered ==
                    IF frame.flags_next
                    THEN [Deliver(entry, << [signal |-> "on_next",
                                             payload |-> frame.payload,
                                             is_complete |-> frame.flags_complete] >>)
                          EXCEPT !.received = @ + 1]
                    ELSE entry
            IN [entry |-> IF frame.flags_complete
                          THEN _complete_remote_subscriber(delivered)
                          ELSE delivered,
                sent |-> << >>]

\* The common frame_received dropping a PAYLOAD frame that carries COMPLETE
\* without NEXT.
super_frame_received_dropping_empty_complete(entry, frame) ==
    CASE frame.type = "REQUEST_N" ->
            [entry |-> [entry EXCEPT !.demand = @ + frame.request_n], sent |-> << >>]
      [] frame.type = "ERROR" ->
            [entry |-> [Deliver(entry,
                            << [signal |-> IF entry.type = REQUEST_RESPONSE
                                           THEN "set_exception" ELSE "on_error",
                                message |-> frame.message] >>)
                        EXCEPT !.state = "finished"],
             sent |-> << >>]
      [] frame.type = "PAYLOAD" /\ entry.type = REQUEST_RESPONSE ->
            [entry |-> mark_completed_and_finish(
                           Deliver(entry, << [signal |-> "set_result",
                                              payload |-> IF frame.flags_next
                                                          THEN frame.payload
                                                          ELSE EmptyPayload] >>),
                           TRUE, FALSE),
             sent |-> << >>]
      [] OTHER ->
            LET count == entry.received + 1
                replenishes == /\ frame.flags_next /\ ~frame.flags_complete
                               /\ entry.subscriber.replenish
                               /\ count = entry.subscriber.limit
                delivered ==
                    IF frame.flags_next
                    THEN [Deliver(entry, << [signal |-> "on_next",
                                             payload |-> frame.payload,
                                             is_complete |-> frame.flags_complete] >>)
                          EXCEPT !.received = IF replenishes THEN 0 ELSE count]
                    ELSE entry
            IN [entry |-> IF frame.flags_complete /\ frame.flags_next
                          THEN _complete_remote_subscriber(delivered)
                          ELSE delivered,
                sent |-> IF replenishes
                         THEN << RequestNFrame(entry.subscriber.limit) >>
                         ELSE << >>]

\* frame_received of a stream entry for PAYLOAD, REQUEST_N and ERROR: the entry
\* afterwards and the frames it sends.
super_frame_received(entry, frame) ==
    CASE frame.type = "REQUEST_N" ->
            [entry |-> [entry EXCEPT !.demand = @ + frame.request_n], sent |-> << >>]
      [] frame.type = "ERROR" ->
            [entry |-> [Deliver(entry,
                            << [signal |-> IF entry.type = REQUEST_RESPONSE
                                           THEN "set_exception" ELSE "on_error",
                                message |-> frame.message] >>)
                        EXCEPT !.state = "finished"],
             sent |-> << >>]
      [] frame.type = "PAYLOAD" /\ entry.type = REQUEST_RESPONSE ->
            [entry |-> mark_completed_and_finish(
                           Deliver(entry, << [signal |-> "set_result",
                                              payload |-> IF frame.flags_next
                                                          THEN frame.payload
                                                          ELSE EmptyPayload] >>),
                           TRUE, FALSE),
             sent |-> << >>]
      [] OTHER ->
            LET count == entry.received + 1
                replenishes == /\ frame.flags_next /\ ~frame.flags_complete
                               /\ entry.subscriber.replenish
                               /\ count = entry.subscriber.limit
                delivered ==
                    IF frame.flags_next
                    THEN [Deliver(entry, << [signal |-> "on_next",
                                             payload |-> frame.payload,
                                             is_complete |-> frame.flags_complete] >>)
                          EXCEPT !.received = IF replenishes THEN 0 ELSE count]
                    ELSE entry
            IN [entry |-> IF frame.flags_complete
                          THEN _complete_remote_subscriber(delivered)
                          ELSE delivered,
                sent |-> IF replenishes
                         THEN << RequestNFrame(entry.subscriber.limit) >>
                         ELSE << >>]

\* frame_received that does not grant the initial_request_n of the request.
frame_received_without_initial_request_n(entry, frame) ==
    IF frame.type = REQUEST_CHANNEL
    THEN LET requested ==
                 IF entry.publisher = NoPublisher
                 THEN [entry |-> mark_completed_and_finish(entry, FALSE, TRUE),
                       sent |-> << PayloadFrame(EmptyPayload, FALSE, TRUE) >>]
                 ELSE [entry |-> entry, sent |-> << >>]
         IN [entry |-> IF frame.flags_complete
                       THEN _complete_remote_subscriber(requested.entry)
                       ELSE requested.entry,
             sent |-> requested.sent]
    ELSE super_frame_received(entry, frame)

\* frame_received that sends COMPLETE and marks the outbound direction
\* completed whether or not there is a subscription.
frame_received_always_completes(entry, frame) ==
    IF frame.type = REQUEST_CHANNEL
    THEN LET requested ==
                 [entry |-> mark_completed_and_finish(entry, FALSE, TRUE),
                  sent |-> << PayloadFrame(EmptyPayload, FALSE, TRUE) >>]
         IN [entry |-> IF frame.flags_complete
                       THEN _complete_remote_subscriber(requested.entry)
                       ELSE requested.entry,
             sent |-> requested.sent]
    ELSE super_frame_received(entry, frame)

\* frame_received that does not look at flags_complete.
frame_received_ignoring_flags_complete(entry, frame) ==
    IF frame.type = REQUEST_CHANNEL
    THEN IF entry.publisher = NoPublisher
         THEN [entry |-> mark_completed_and_finish(entry, FALSE, TRUE),
               sent |-> << PayloadFrame(EmptyPayload, FALSE, TRUE) >>]
         ELSE [entry |-> [entry EXCEPT !.demand = @ + frame.initial_request_n],
               sent |-> << >>]
    ELSE super_frame_received(entry, frame)

\* frame_received that requests from the publisher only when the handler
\* returned a subscriber for the other direction.
frame_received_needs_subscriber(entry, frame) ==
    IF frame.type = REQUEST_CHANNEL
    THEN LET requested ==
                 IF entry.publisher = NoPublisher
                 THEN [entry |-> mark_completed_and_finish(entry, FALSE, TRUE),
                       sent |-> << PayloadFrame(EmptyPayload, FALSE, TRUE) >>]
                 ELSE IF entry.subscriber.present
                 THEN [entry |-> [entry EXCEPT !.demand = @ + frame.initial_request_n],
                       sent |-> << >>]
                 ELSE [entry |-> entry, sent |-> << >>]
         IN [entry |-> IF frame.flags_complete
                       THEN _complete_remote_subscriber(requested.entry)
                       ELSE requested.entry,
             sent |-> requested.sent]
    ELSE super_frame_received(entry, frame)

\* frame_received that drops every frame but the request.
frame_received_dropping_other_frames(entry, frame) ==
    IF frame.type = REQUEST_CHANNEL
    THEN LET requested ==
                 IF entry.publisher = NoPublisher
                 THEN [entry |-> mark_completed_and_finish(entry, FALSE, TRUE),
                       sent |-> << PayloadFrame(EmptyPayload, FALSE, TRUE) >>]
                 ELSE [entry |-> [entry EXCEPT !.demand = @ + frame.initial_request_n],
                       sent |-> << >>]
         IN [entry |-> IF frame.flags_complete
                       THEN _complete_remote_subscriber(requested.entry)
                       ELSE requested.entry,
             sent |-> requested.sent]
    ELSE [entry |-> entry, sent |-> << >>]

\* frame_received that finishes the stream when it sends COMPLETE.
frame_received_finishing_on_complete(entry, frame) ==
    IF frame.type = REQUEST_CHANNEL
    THEN LET requested ==
                 IF entry.publisher = NoPublisher
                 THEN [entry |-> [entry EXCEPT !.sent_complete = TRUE, !.state = "finished"],
                       sent |-> << PayloadFrame(EmptyPayload, FALSE, TRUE) >>]
                 ELSE [entry |-> [entry EXCEPT !.demand = @ + frame.initial_request_n],
                       sent |-> << >>]
         IN [entry |-> IF frame.flags_complete
                       THEN _complete_remote_subscriber(requested.entry)
                       ELSE requested.entry,
             sent |-> requested.sent]
    ELSE super_frame_received(entry, frame)

\* frame_received that completes the remote subscriber whether or not the
\* request frame is flagged complete.
frame_received_completing_without_flag(entry, frame) ==
    IF frame.type = REQUEST_CHANNEL
    THEN LET requested ==
                 IF entry.publisher = NoPublisher
                 THEN [entry |-> mark_completed_and_finish(entry, FALSE, TRUE),
                       sent |-> << PayloadFrame(EmptyPayload, FALSE, TRUE) >>]
                 ELSE [entry |-> [entry EXCEPT !.demand = @ + frame.initial_request_n],
                       sent |-> << >>]
         IN [entry |-> _complete_remote_subscriber(requested.entry),
             sent |-> requested.sent]
    ELSE super_frame_received(entry, frame)

\* frame_received that requests MAX_REQUEST_N from the subscription whatever
\* the initial_request_n of the frame.
frame_received_requesting_unbounded(entry, frame) ==
    IF frame.type = REQUEST_CHANNEL
    THEN LET requested ==
                 IF entry.publisher = NoPublisher
                 THEN [entry |-> mark_completed_and_finish(entry, FALSE, TRUE),
                       sent |-> << PayloadFrame(EmptyPayload, FALSE, TRUE) >>]
                 ELSE [entry |-> [entry EXCEPT !.demand = @ + MAX_REQUEST_N],
                       sent |-> << >>]
         IN [entry |-> IF frame.flags_complete
                       THEN _complete_remote_subscriber(requested.entry)
                       ELSE requested.entry,
             sent |-> requested.sent]
    ELSE super_frame_received(entry, frame)

\* frame_received that takes the first step or the second, never both: after
\* sending COMPLETE it does not look at flags_complete.
frame_received_either_step(entry, frame) ==
    IF frame.type = REQUEST_CHANNEL
    THEN IF entry.publisher = NoPublisher
         THEN [entry |-> mark_completed_and_finish(entry, FALSE, TRUE),
               sent |-> << PayloadFrame(EmptyPayload, FALSE, TRUE) >>]
         ELSE [entry |-> IF frame.flags_complete
                         THEN _complete_remote_subscriber(
                                  [entry EXCEPT !.demand = @ + frame.initial_request_n])
                         ELSE [entry EXCEPT !.demand = @ + frame.initial_request_n],
               sent |-> << >>]
    ELSE super_frame_received(entry, frame)

\* RequestChannelResponder.frame_received.  The subscription of self.subscriber
\* is None when the handler returned no publisher to subscribe to.
frame_received(entry, frame) ==
    IF frame.type = REQUEST_CHANNEL
    THEN LET requested ==
                 IF entry.publisher = NoPublisher
                 THEN [entry |-> mark_completed_and_finish(entry, FALSE, TRUE),
                       sent |-> << PayloadFrame(EmptyPayload, FALSE, TRUE) >>]
                 ELSE [entry |-> [entry EXCEPT !.demand = @ + frame.initial_request_n],
                       sent |-> << >>]
         IN [entry |-> IF frame.flags_complete
                       THEN _complete_remote_subscriber(requested.entry)
                       ELSE requested.entry,
             sent |-> requested.sent]
    ELSE super_frame_received(entry, frame)

\* The local publisher can signal its subscriber.
CanEmit(entry) ==
    /\ entry.state = "open"
    /\ ~entry.sent_complete
    /\ entry.publisher.ending # "absent"
    /\ \/ entry.publisher.ending = "error on subscribe"
       \/ entry.demand > 0
       \/ /\ entry.publisher.ending = "on_completed"
          /\ entry.emitted = Len(entry.publisher.items)

\* The local publisher signals its subscriber, which sends the frame: on_next
\* a PAYLOAD(NEXT), complete when flagged; on_complete a PAYLOAD(COMPLETE);
\* on_error an ERROR, which finishes the stream.
Emit(entry) ==
    LET publisher == entry.publisher
        next == entry.emitted + 1
    IN IF publisher.ending = "error on subscribe"
          \/ (next > Len(publisher.items) /\ publisher.ending = "error")
       THEN [entry |-> [entry EXCEPT !.state = "finished"],
             sent |-> << ErrorFrame(publisher.message) >>]
       ELSE IF next > Len(publisher.items)
       THEN [entry |-> mark_completed_and_finish(entry, FALSE, TRUE),
             sent |-> << PayloadFrame(EmptyPayload, FALSE, TRUE) >>]
       ELSE LET is_complete == /\ next = Len(publisher.items)
                               /\ publisher.ending = "complete on last"
                emitted == [entry EXCEPT !.emitted = next, !.demand = @ - 1]
            IN [entry |-> IF is_complete
                          THEN mark_completed_and_finish(emitted, FALSE, TRUE)
                          ELSE emitted,
                sent |-> << PayloadFrame(publisher.items[next], TRUE, is_complete) >>]

(* The client's requests *)

\* client.request_response(payload)
ClientRequestResponse(payload) ==
    /\ requester.state = "none"
    /\ requester' = [NoStream EXCEPT !.type = REQUEST_RESPONSE, !.state = "open",
                                     !.payload = payload, !.sent_complete = TRUE,
                                     !.subscriber = DefaultSubscriber]
    /\ to_server' = Append(to_server, RequestFrame(REQUEST_RESPONSE, payload, 0, FALSE))
    /\ UNCHANGED << handler_factory, responses, responder_subscriber, to_client,
                    responder, handler_calls, logged >>

\* client.fire_and_forget(payload): the stream closes as soon as the frame is sent.
ClientFireAndForget(payload) ==
    /\ requester.state = "none"
    /\ requester' = [NoStream EXCEPT !.type = REQUEST_FNF, !.state = "finished",
                                     !.payload = payload]
    /\ to_server' = Append(to_server, RequestFrame(REQUEST_FNF, payload, 0, FALSE))
    /\ UNCHANGED << handler_factory, responses, responder_subscriber, to_client,
                    responder, handler_calls, logged >>

\* client.metadata_push(metadata)
ClientMetadataPush(metadata) ==
    /\ requester.state = "none"
    /\ requester' = [NoStream EXCEPT !.type = METADATA_PUSH, !.state = "finished",
                                     !.payload = Payload(None, metadata)]
    /\ to_server' = Append(to_server, MetadataPushFrame(metadata))
    /\ UNCHANGED << handler_factory, responses, responder_subscriber, to_client,
                    responder, handler_calls, logged >>

\* client.request_stream(payload).subscribe(subscriber)
ClientRequestStream(payload, subscriber) ==
    /\ requester.state = "none"
    /\ requester' = [NoStream EXCEPT !.type = REQUEST_STREAM, !.state = "open",
                                     !.payload = payload, !.sent_complete = TRUE,
                                     !.subscriber = subscriber,
                                     !.signals = << [signal |-> "on_subscribe"] >>]
    /\ to_server' = Append(to_server,
                           RequestFrame(REQUEST_STREAM, payload, subscriber.limit, FALSE))
    /\ UNCHANGED << handler_factory, responses, responder_subscriber, to_client,
                    responder, handler_calls, logged >>

\* client.request_channel(payload, publisher).subscribe(subscriber): without a
\* local publisher the request frame is flagged complete.
ClientRequestChannel(payload, publisher, subscriber) ==
    /\ requester.state = "none"
    /\ requester' = [NoStream EXCEPT !.type = REQUEST_CHANNEL, !.state = "open",
                                     !.payload = payload, !.publisher = publisher,
                                     !.sent_complete = (publisher = NoPublisher),
                                     !.subscriber = subscriber,
                                     !.signals = << [signal |-> "on_subscribe"] >>]
    /\ to_server' = Append(to_server,
                           RequestFrame(REQUEST_CHANNEL, payload, subscriber.limit,
                                        publisher = NoPublisher))
    /\ UNCHANGED << handler_factory, responses, responder_subscriber, to_client,
                    responder, handler_calls, logged >>

(* The server *)

\* The entry point of RoutingRequestHandler for a frame type.
EntryPoint(frame_type, payload) ==
    CASE frame_type = REQUEST_RESPONSE -> request_response(payload)
      [] frame_type = REQUEST_STREAM -> request_stream(payload)
      [] frame_type = REQUEST_CHANNEL -> request_channel(payload)
      [] frame_type = REQUEST_FNF -> request_fire_and_forget(payload)
      [] OTHER -> on_metadata_push(payload)

\* What a RoutingRequestHandler returns for a request, given the result of its
\* entry point: the publisher and subscriber, the calls of route functions it
\* made and the errors it logged.
RoutingResult(frame_type, result) ==
    [publisher |-> IF result.exception # "none"
                      /\ frame_type \notin {REQUEST_FNF, METADATA_PUSH}
                   THEN ErrorStream(result.exception)
                   ELSE RoutePublisher(frame_type),
     subscriber |-> IF frame_type = REQUEST_CHANNEL THEN DefaultSubscriber ELSE NoSubscriber,
     calls |-> CallsOf(result.events),
     logged |-> IF result.exception # "none" /\ frame_type = REQUEST_FNF
                THEN << result.exception >> ELSE << >>]

\* What the server's handler returns for a request.
HandlerResult(frame_type, payload) ==
    IF handler_factory = "RoutingRequestHandler"
    THEN RoutingResult(frame_type, EntryPoint(frame_type, payload))
    ELSE [publisher |-> CASE frame_type = REQUEST_RESPONSE ->
                                 Future(Payload("Response", NoMetadata))
                          [] frame_type \in {REQUEST_STREAM, REQUEST_CHANNEL} -> responses
                          [] OTHER -> NoPublisher,
          subscriber |-> IF frame_type = REQUEST_CHANNEL
                         THEN responder_subscriber ELSE NoSubscriber,
          calls |-> << >>,
          logged |-> << >>]

\* The stream entry of a request, registered with what the handler returned.
\* The subscriber a channel's handler returned is subscribed to the requester's
\* payloads: on_subscribe is its first signal.
Registered_stream(frame, result) ==
    [NoStream EXCEPT !.type = frame.type, !.payload = frame.payload,
                     !.publisher = result.publisher,
                     !.subscriber = result.subscriber,
                     !.state = IF frame.type \in {REQUEST_FNF, METADATA_PUSH}
                               THEN "finished" ELSE "open",
                     !.demand = CASE frame.type = REQUEST_RESPONSE -> 1
                                  [] frame.type = REQUEST_STREAM -> frame.initial_request_n
                                  [] OTHER -> 0,
                     !.received_complete = frame.type # REQUEST_CHANNEL,
                     !.signals = IF frame.type = REQUEST_CHANNEL
                                    /\ result.subscriber.present
                                 THEN << [signal |-> "on_subscribe"] >>
                                 ELSE << >>]

\* The frames a stream entry sends after frame_received, behind those sent before.
After(sent, received) == [entry |-> received.entry, sent |-> sent \o received.sent]

\* The server handles a request with what its handler returned: the
\* responder's entry afterwards and the frames sent.  The subscriber of a
\* channel is subscribed, and requests, before the request frame is received.
Accept(frame, result) ==
    IF frame.type = REQUEST_CHANNEL
    THEN After(IF result.subscriber.limit > 0
               THEN << RequestNFrame(result.subscriber.limit) >>
               ELSE << >>,
               frame_received(Registered_stream(frame, result), frame))
    ELSE [entry |-> Registered_stream(frame, result), sent |-> << >>]

\* The calls made and the errors logged go with the entry and the frames.
Handled(accepted, result) ==
    [entry |-> accepted.entry, sent |-> accepted.sent,
     calls |-> result.calls, logged |-> result.logged]

Requested(frame, result) == Handled(Accept(frame, result), result)

\* The server handles a frame: the responder's entry afterwards, the frames
\* sent, the calls made and the errors logged.  A frame for a stream that is
\* not open is dropped.
ServerHandles(frame) ==
    IF frame.type \in FrameType
    THEN Requested(frame, HandlerResult(frame.type, frame.payload))
    ELSE IF responder.state = "open"
    THEN Handled(frame_received(responder, frame), [calls |-> << >>, logged |-> << >>])
    ELSE [entry |-> responder, sent |-> << >>, calls |-> << >>, logged |-> << >>]

\* The server takes the next frame from the client.
ServerReceive ==
    /\ to_server # << >>
    /\ \E handled \in {ServerHandles(Head(to_server))} :
          /\ to_server' = Tail(to_server)
          /\ responder' = Accounted(handled.entry, << Head(to_server) >>, handled.sent)
          /\ to_client' = to_client \o handled.sent
          /\ handler_calls' = handler_calls \o handled.calls
          /\ logged' = logged \o handled.logged
    /\ UNCHANGED << handler_factory, responses, responder_subscriber, requester >>

\* The responder's publisher signals, and the frame is sent.
ResponderEmit ==
    /\ CanEmit(responder)
    /\ \E emitted \in {Emit(responder)} :
          /\ responder' = Accounted(emitted.entry, << >>, emitted.sent)
          /\ to_client' = to_client \o emitted.sent
    /\ UNCHANGED << handler_factory, responses, responder_subscriber, to_server,
                    requester, handler_calls, logged >>

(* The client's side of the stream *)

\* The requester's publisher signals, and the frame is sent.
RequesterEmit ==
    /\ CanEmit(requester)
    /\ \E emitted \in {Emit(requester)} :
          /\ requester' = Accounted(emitted.entry, << >>, emitted.sent)
          /\ to_server' = to_server \o emitted.sent
    /\ UNCHANGED << handler_factory, responses, responder_subscriber, to_client,
                    responder, handler_calls, logged >>

\* The client takes the next frame from the server.  A frame for a stream that
\* is finished is dropped.
ClientReceive ==
    /\ to_client # << >>
    /\ to_client' = Tail(to_client)
    /\ IF requester.state = "open"
       THEN \E received \in {super_frame_received(requester, Head(to_client))} :
               /\ requester' = Accounted(received.entry, << Head(to_client) >>,
                                          received.sent)
               /\ to_server' = to_server \o received.sent
       ELSE UNCHANGED << requester, to_server >>
    /\ UNCHANGED << handler_factory, responses, responder_subscriber, responder,
                    handler_calls, logged >>

(* Request/response on the requester's side *)

MaxResponses == 2

CancelFrame == [type |-> "CANCEL", stream_id |-> StreamId]

\* The frames a responder can answer a REQUEST_RESPONSE with: PAYLOAD with
\* COMPLETE and NEXT, PAYLOAD with COMPLETE alone, ERROR.
ResponseFrames ==
    {PayloadFrame(Payload("Response", NoMetadata), TRUE, TRUE),
     PayloadFrame(EmptyPayload, FALSE, TRUE),
     ErrorFrame("Some error from responder")}

\* A frame of the responder is on its way to the client.
ResponderSends(answer) ==
    /\ requester.type = REQUEST_RESPONSE
    /\ Len(to_client) < MaxResponses
    /\ to_client' = Append(to_client, answer)
    /\ UNCHANGED << handler_factory, responses, responder_subscriber, to_server,
                    requester, responder, handler_calls, logged >>

\* The cancel of the requester that leaves the stream open for frames.
ClientCancel_keeping_stream_open ==
    /\ requester.type = REQUEST_RESPONSE
    /\ IF requester.state = "open" /\ requester.signals = << >>
       THEN /\ requester' = Deliver(requester, << [signal |-> "cancelled"] >>)
            /\ to_server' = Append(to_server, CancelFrame)
       ELSE UNCHANGED << requester, to_server >>
    /\ UNCHANGED << handler_factory, responses, responder_subscriber, to_client,
                    responder, handler_calls, logged >>

\* The cancel that sends CANCEL whether the stream is open or not.
ClientCancel_repeating_cancel ==
    /\ requester.type = REQUEST_RESPONSE
    /\ Len(to_server) < 2 + MaxResponses
    /\ requester' = IF requester.state = "open"
                    THEN [Deliver(requester, << [signal |-> "cancelled"] >>)
                          EXCEPT !.state = "finished"]
                    ELSE requester
    /\ to_server' = Append(to_server, CancelFrame)
    /\ UNCHANGED << handler_factory, responses, responder_subscriber, to_client,
                    responder, handler_calls, logged >>

\* The requester cancels the future of its request: CANCEL is sent and the
\* stream is finished, so that frames that arrive later are dropped.  The
\* cancel of a future that is done changes nothing.
ClientCancel ==
    /\ requester.type = REQUEST_RESPONSE
    /\ IF requester.state = "open"
       THEN /\ requester' = [Deliver(requester, << [signal |-> "cancelled"] >>)
                             EXCEPT !.state = "finished"]
            /\ to_server' = Append(to_server, CancelFrame)
       ELSE UNCHANGED << requester, to_server >>
    /\ UNCHANGED << handler_factory, responses, responder_subscriber, to_client,
                    responder, handler_calls, logged >>

(***************************************************************************)
(* Fragmentation: FragmentableFrame.get_next_fragment and                  *)
(* FrameFragmentCache, as tests/rsocket/test_fragments.py uses them        *)
(***************************************************************************)

MaxData == 8
MaxMetadata == 6
MaxFragmentSize == 4
MaxHandBuilt == 2

PAYLOAD == "PAYLOAD"
MinFragmentSize == 3

\* The frame types test_fragments.py fragments: PayloadFrame and the frames
\* of to_request_response_frame, to_request_stream_frame and
\* to_request_channel_frame.
FragmentableTypes == {PAYLOAD, REQUEST_RESPONSE, REQUEST_STREAM, REQUEST_CHANNEL}

\* Byte strings: the i-th byte of a frame's data is i, the i-th byte of its
\* metadata is 100 + i, so that no byte of one section equals one of the other.
data_bytes(n) == [i \in 1..n |-> i]
metadata_bytes(n) == [i \in 1..n |-> 100 + i]

FragmentStreams == {1, 2}

VARIABLES
    frame,                 \* the logical frame and the position of its fragment generator
    fragments,             \* list(fragment_generator()) so far
    exhausted,             \* get_next_fragment has returned None
    _frames_by_stream_id,  \* FrameFragmentCache: stream id -> the frame under construction
    appended               \* the calls of cache.append so far: argument and outcome

fragmentVars == << frame, fragments, exhausted, _frames_by_stream_id, appended >>

\* A frame built for sending: PayloadFrame() with data, metadata and
\* fragment_size_bytes set, or request_builder(1, Payload(data, metadata),
\* fragment_size_bytes).  metadata_read / data_read / started are the state of
\* its fragment generator.
FragmentableFrame(type, data, metadata, fragment_size_bytes) ==
    [type |-> type, stream_id |-> 1, data |-> data, metadata |-> metadata,
     fragment_size_bytes |-> fragment_size_bytes,
     metadata_read |-> 0, data_read |-> 0, started |-> FALSE]

NoFrame == FragmentableFrame(None, << >>, << >>, 0)

\* A frame on the wire.
Fragment(type, stream_id, data, metadata, flags_follows) ==
    [type |-> type, stream_id |-> stream_id, data |-> data, metadata |-> metadata,
     flags_follows |-> flags_follows]

min(a, b) == IF a < b THEN a ELSE b

\* reader.read(n): the next at most n bytes from position `read`.
read(bytes, position, n) ==
    SubSeq(bytes, position + 1, min(Len(bytes), position + n))

\* get_next_fragment with the metadata and the data in fragments of their own:
\* a fragment never carries bytes of both.
get_next_fragment_unpacked(f) ==
    IF f.started /\ f.metadata_read = Len(f.metadata) /\ f.data_read = Len(f.data)
    THEN [fragment |-> << >>, frame |-> f]
    ELSE LET metadata_fragment == read(f.metadata, f.metadata_read, f.fragment_size_bytes)
             data_fragment ==
                 IF Len(metadata_fragment) > 0 THEN << >>
                 ELSE read(f.data, f.data_read, f.fragment_size_bytes)
             metadata_read == f.metadata_read + Len(metadata_fragment)
             data_read == f.data_read + Len(data_fragment)
         IN [fragment |->
                << Fragment(IF f.started THEN PAYLOAD ELSE f.type, f.stream_id,
                            data_fragment, metadata_fragment,
                            metadata_read < Len(f.metadata) \/ data_read < Len(f.data)) >>,
             frame |-> [f EXCEPT !.metadata_read = metadata_read,
                                 !.data_read = data_read, !.started = TRUE]]

\* get_next_fragment with every fragment of the type of the logical frame.
get_next_fragment_same_type(f) ==
    IF f.started /\ f.metadata_read = Len(f.metadata) /\ f.data_read = Len(f.data)
    THEN [fragment |-> << >>, frame |-> f]
    ELSE LET metadata_fragment == read(f.metadata, f.metadata_read, f.fragment_size_bytes)
             data_fragment == read(f.data, f.data_read,
                                   f.fragment_size_bytes - Len(metadata_fragment))
             metadata_read == f.metadata_read + Len(metadata_fragment)
             data_read == f.data_read + Len(data_fragment)
         IN [fragment |->
                << Fragment(f.type, f.stream_id, data_fragment, metadata_fragment,
                            metadata_read < Len(f.metadata) \/ data_read < Len(f.data)) >>,
             frame |-> [f EXCEPT !.metadata_read = metadata_read,
                                 !.data_read = data_read, !.started = TRUE]]

\* frame.get_next_fragment(): the next fragment, << >> for None once the data
\* and the metadata are used up.  A fragment takes up to fragment_size_bytes
\* of the metadata that is left and fills the rest with data; the first has the
\* frame's type, the others are PayloadFrames; flags_follows says more is left.
\* A frame without data and metadata is one fragment.
get_next_fragment(f) ==
    IF f.started /\ f.metadata_read = Len(f.metadata) /\ f.data_read = Len(f.data)
    THEN [fragment |-> << >>, frame |-> f]
    ELSE LET metadata_fragment == read(f.metadata, f.metadata_read, f.fragment_size_bytes)
             data_fragment == read(f.data, f.data_read,
                                   f.fragment_size_bytes - Len(metadata_fragment))
             metadata_read == f.metadata_read + Len(metadata_fragment)
             data_read == f.data_read + Len(data_fragment)
         IN [fragment |->
                << Fragment(IF f.started THEN PAYLOAD ELSE f.type, f.stream_id,
                            data_fragment, metadata_fragment,
                            metadata_read < Len(f.metadata) \/ data_read < Len(f.data)) >>,
             frame |-> [f EXCEPT !.metadata_read = metadata_read,
                                 !.data_read = data_read, !.started = TRUE]]

\* FrameFragmentCache()
FrameFragmentCache == [stream_id \in FragmentStreams |-> << >>]

RSocketFrameFragmentDifferentType == "RSocketFrameFragmentDifferentType"

\* The frame under construction with the next fragment added.
combine(current, next_fragment) ==
    [current EXCEPT !.data = @ \o next_fragment.data,
                    !.metadata = @ \o next_fragment.metadata,
                    !.flags_follows = next_fragment.flags_follows]

\* The outcome of cache.append: the cache afterwards, the exception raised
\* ("none" for a return) and the value returned (<< >> for None).
Appended(cache, raised, value) == [cache |-> cache, raised |-> raised, value |-> value]

\* cache.append returning the fragment it was given where the frame is complete.
append_returning_last_fragment(cache, next_fragment) ==
    LET current == cache[next_fragment.stream_id]
    IN  IF current = << >>
        THEN IF next_fragment.flags_follows
             THEN Appended([cache EXCEPT ![next_fragment.stream_id] = << next_fragment >>],
                           "none", << >>)
             ELSE Appended(cache, "none", << next_fragment >>)
        ELSE IF next_fragment.type # PAYLOAD /\ next_fragment.type # current[1].type
             THEN Appended(cache, RSocketFrameFragmentDifferentType, << >>)
             ELSE IF next_fragment.flags_follows
                  THEN Appended([cache EXCEPT ![next_fragment.stream_id] =
                                    << combine(current[1], next_fragment) >>], "none", << >>)
                  ELSE Appended([cache EXCEPT ![next_fragment.stream_id] = << >>],
                                "none", << next_fragment >>)

\* cache.append without the comparison of the frame types.
append_any_type(cache, next_fragment) ==
    LET current == cache[next_fragment.stream_id]
    IN  IF current = << >>
        THEN IF next_fragment.flags_follows
             THEN Appended([cache EXCEPT ![next_fragment.stream_id] = << next_fragment >>],
                           "none", << >>)
             ELSE Appended(cache, "none", << next_fragment >>)
        ELSE IF next_fragment.flags_follows
             THEN Appended([cache EXCEPT ![next_fragment.stream_id] =
                               << combine(current[1], next_fragment) >>], "none", << >>)
             ELSE Appended([cache EXCEPT ![next_fragment.stream_id] = << >>],
                           "none", << combine(current[1], next_fragment) >>)

\* cache.append(frame): a frame without FOLLOWS on a stream with nothing under
\* construction is returned as it is; a fragment with FOLLOWS is added to the
\* frame under construction of its stream and None is returned; the fragment
\* without FOLLOWS completes it, and the combined frame, of the type of the
\* first fragment, is returned and leaves the cache.  A fragment that is neither
\* a PayloadFrame nor of the type of the first raises
\* RSocketFrameFragmentDifferentType.
append(cache, next_fragment) ==
    LET current == cache[next_fragment.stream_id]
    IN  IF current = << >>
        THEN IF next_fragment.flags_follows
             THEN Appended([cache EXCEPT ![next_fragment.stream_id] = << next_fragment >>],
                           "none", << >>)
             ELSE Appended(cache, "none", << next_fragment >>)
        ELSE IF next_fragment.type # PAYLOAD /\ next_fragment.type # current[1].type
             THEN Appended(cache, RSocketFrameFragmentDifferentType, << >>)
             ELSE IF next_fragment.flags_follows
                  THEN Appended([cache EXCEPT ![next_fragment.stream_id] =
                                    << combine(current[1], next_fragment) >>], "none", << >>)
                  ELSE Appended([cache EXCEPT ![next_fragment.stream_id] = << >>],
                                "none", << combine(current[1], next_fragment) >>)

\* The frames test_fragments.py fragments.
FragmentableFrames ==
    {FragmentableFrame(type, data_bytes(d), metadata_bytes(md), fragment_size_bytes) :
        type \in FragmentableTypes, d \in 0..MaxData, md \in 0..MaxMetadata,
        fragment_size_bytes \in MinFragmentSize..MaxFragmentSize}

\* Frames built by hand, as first_frame and second_frame of
\* test_frame_building_should_fail_if_inconsistent_frame_type: data b'123',
\* flags_follows set by the test.
HandBuiltFrames ==
    {Fragment(type, stream_id, data_bytes(3), << >>, flags_follows) :
        type \in FragmentableTypes, stream_id \in FragmentStreams,
        flags_follows \in BOOLEAN}

\* next_fragment = frame.get_next_fragment() of the tests' fragment_generator.
GetNextFragment ==
    /\ frame # NoFrame
    /\ ~exhausted
    /\ \E produced \in {get_next_fragment(frame)} :
          /\ frame' = produced.frame
          /\ fragments' = fragments \o produced.fragment
          /\ exhausted' = (produced.fragment = << >>)
    /\ UNCHANGED << _frames_by_stream_id, appended >>

\* cache.append(frame) with its outcome recorded.
CacheAppend(next_fragment) ==
    \E outcome \in {append(_frames_by_stream_id, next_fragment)} :
       /\ _frames_by_stream_id' = outcome.cache
       /\ appended' = Append(appended, [frame |-> next_fragment, raised |-> outcome.raised,
                                         value |-> outcome.value])

\* for fragment in fragments: cache.append(fragment), once the list is complete.
AppendFragment ==
    /\ exhausted
    /\ Len(appended) < Len(fragments)
    /\ CacheAppend(fragments[Len(appended) + 1])
    /\ UNCHANGED << frame, fragments, exhausted >>

\* cache.append of a frame built by hand.
AppendFrame(f) ==
    /\ frame = NoFrame
    /\ Len(appended) < MaxHandBuilt
    /\ CacheAppend(f)
    /\ UNCHANGED << frame, fragments, exhausted >>

NoFragmentation ==
    /\ frame = NoFrame
    /\ fragments = << >>
    /\ exhausted = FALSE
    /\ _frames_by_stream_id = FrameFragmentCache
    /\ appended = << >>

(***************************************************************************)
(* Stream ids of a connection                                              *)
(***************************************************************************)

MaxStreams == 4

MAX_STREAM_ID == 2147483647

Sides == {"client", "server"}

VARIABLES
    _next_stream,   \* per side: the id its next stream gets
    _streams,       \* the stream table: the ids of the streams that are live
    allocated       \* the streams opened so far: side and id, in order

streamIdVars == << _next_stream, _streams, allocated >>

\* Client-initiated streams have odd ids from 1, server-initiated even ids
\* from 2.
first_stream_id(side) == IF side = "client" THEN 1 ELSE 2

\* The allocation that takes the lowest id of the side that is not in the
\* stream table.
allocate_stream_lowest_free(next_stream, streams) ==
    [stream |-> CHOOSE id \in 1..next_stream :
                   /\ id % 2 = next_stream % 2
                   /\ id \notin streams
                   /\ \A lower \in 1..(id - 1) :
                         lower % 2 # next_stream % 2 \/ lower \in streams,
     next_stream |-> next_stream + 2]

\* Allocate next stream ID on request: the stream gets the side's next id, and
\* the next id moves on by 2.
allocate_stream(next_stream, streams) ==
    [stream |-> next_stream, next_stream |-> next_stream + 2]

\* A side opens a stream.
AllocateStream(side) ==
    /\ Len(allocated) < MaxStreams
    /\ _next_stream[side] <= MAX_STREAM_ID
    /\ \E allocation \in {allocate_stream(_next_stream[side], _streams)} :
          /\ _next_stream' = [_next_stream EXCEPT ![side] = allocation.next_stream]
          /\ _streams' = _streams \cup {allocation.stream}
          /\ allocated' = Append(allocated, [side |-> side, stream |-> allocation.stream])

\* A stream reaches its terminal state and is removed from the table.
FinishStream(stream_id) ==
    /\ stream_id \in _streams
    /\ _streams' = _streams \ {stream_id}
    /\ UNCHANGED << _next_stream, allocated >>

StreamIdInit ==
    /\ _next_stream = [side \in Sides |-> first_stream_id(side)]
    /\ _streams = {}
    /\ allocated = << >>

(***************************************************************************)
(* Stream tables of the two sides of a connection, and close               *)
(***************************************************************************)

MaxInFlight == 2

MaxOpened == 2

VARIABLES
    stream_table,   \* per side: the ids of the streams it holds an entry for
    terminal,       \* per side: the ids of the streams that reached a terminal state
    in_flight,      \* frames written and not yet read, in order
    closed          \* per side: whether it has closed

tableVars == << stream_table, terminal, in_flight, closed >>

Peer(side) == IF side = "client" THEN "server" ELSE "client"

\* The frame that tells the peer of a stream's terminal state: the requester
\* cancels, the responder completes or fails.
TerminalFrameTypes(side, stream_id) ==
    IF stream_id % 2 = first_stream_id(side) % 2 THEN {"CANCEL"} ELSE {"COMPLETE", "ERROR"}

LiveStreams(table) == table["client"] \cup table["server"]

\* A side sends a request: it allocates the stream id, enters the stream in
\* its table and writes the request frame.
OpenStream(side) ==
    /\ ~closed[side]
    /\ Len(in_flight) < MaxInFlight
    /\ Len(allocated) < MaxOpened
    /\ AllocateStream(side)
    /\ \E stream_id \in {allocate_stream(_next_stream[side], _streams).stream} :
          /\ stream_table' = [stream_table EXCEPT ![side] = @ \cup {stream_id}]
          /\ in_flight' = Append(in_flight, [to |-> Peer(side), stream_id |-> stream_id,
                                             type |-> "REQUEST"])
    /\ UNCHANGED << terminal, closed >>

\* A stream enters a terminal state on one side: the entry leaves the table
\* and the peer is told.
Terminate(side, stream_id) ==
    /\ ~closed[side]
    /\ stream_id \in stream_table[side]
    /\ Len(in_flight) < MaxInFlight
    /\ \E type \in TerminalFrameTypes(side, stream_id) :
          in_flight' = Append(in_flight, [to |-> Peer(side), stream_id |-> stream_id,
                                          type |-> type])
    /\ \E table \in {[stream_table EXCEPT ![side] = @ \ {stream_id}]} :
          /\ stream_table' = table
          /\ _streams' = LiveStreams(table)
    /\ terminal' = [terminal EXCEPT ![side] = @ \cup {stream_id}]
    /\ UNCHANGED << _next_stream, allocated, closed >>

\* The read loop entering a stream for a request that arrives after close.
received_after_close(side, received, table, ended, is_closed) ==
    IF received.type = "REQUEST"
    THEN [table |-> [table EXCEPT ![side] = @ \cup {received.stream_id}], ended |-> ended]
    ELSE IF received.stream_id \in table[side]
    THEN [table |-> [table EXCEPT ![side] = @ \ {received.stream_id}],
          ended |-> [ended EXCEPT ![side] = @ \cup {received.stream_id}]]
    ELSE [table |-> table, ended |-> ended]

\* What reading a frame does to the tables: a closed side reads nothing; a
\* request creates the responder's entry; a terminal frame removes the entry
\* of its stream; a frame of a stream that has no entry is dropped.
received(side, received_frame, table, ended, is_closed) ==
    IF is_closed THEN [table |-> table, ended |-> ended]
    ELSE IF received_frame.type = "REQUEST"
    THEN [table |-> [table EXCEPT ![side] = @ \cup {received_frame.stream_id}],
          ended |-> ended]
    ELSE IF received_frame.stream_id \in table[side]
    THEN [table |-> [table EXCEPT ![side] = @ \ {received_frame.stream_id}],
          ended |-> [ended EXCEPT ![side] = @ \cup {received_frame.stream_id}]]
    ELSE [table |-> table, ended |-> ended]

\* The frame at the head of the transport is read by the side it is for.
Receive ==
    /\ in_flight # << >>
    /\ \E result \in {received(Head(in_flight).to, Head(in_flight), stream_table, terminal,
                                closed[Head(in_flight).to])} :
          /\ stream_table' = result.table
          /\ terminal' = result.ended
          /\ _streams' = LiveStreams(result.table)
    /\ in_flight' = Tail(in_flight)
    /\ UNCHANGED << _next_stream, allocated, closed >>

\* A side closes, by close() or on the end of the transport: its live streams
\* get on_error(Disconnected) and leave the table.
Close(side) ==
    /\ ~closed[side]
    /\ closed' = [closed EXCEPT ![side] = TRUE]
    /\ terminal' = [terminal EXCEPT ![side] = @ \cup stream_table[side]]
    /\ \E table \in {[stream_table EXCEPT ![side] = {}]} :
          /\ stream_table' = table
          /\ _streams' = LiveStreams(table)
    /\ UNCHANGED << _next_stream, allocated, in_flight >>

TableInit ==
    /\ stream_table = [side \in Sides |-> {}]
    /\ terminal = [side \in Sides |-> {}]
    /\ in_flight = << >>
    /\ closed = [side \in Sides |-> FALSE]

engineVars == << fragmentVars, streamIdVars, tableVars >>

NoEngine == NoFragmentation /\ StreamIdInit /\ TableInit

(***************************************************************************)
(* Specifications                                                          *)
(***************************************************************************)

vars == << routerVars, handlerVars, connectionVars, engineVars, last >>

\* No RoutingRequestHandler: its attributes never change.
NoHandler ==
    /\ authentication_verifier = None
    /\ _lease_ttl = Nothing
    /\ _lease_max_requests = Nothing
    /\ data_encoding = Unset
    /\ metadata_encoding = Unset
    /\ base_on_setup = 0
    /\ setup_frames = 0
    /\ sent_frames = << >>

\* No connection: nothing in flight, no streams.
NoConnection ==
    /\ handler_factory = "RoutingRequestHandler"
    /\ responses = NoPublisher
    /\ responder_subscriber = NoSubscriber
    /\ to_server = << >>
    /\ to_client = << >>
    /\ requester = NoStream
    /\ responder = NoStream
    /\ handler_calls = << >>
    /\ logged = << >>

\* A RequestRouter on its own: registrations and calls of route.
Init ==
    /\ RouterInit
    /\ NoHandler
    /\ NoConnection
    /\ NoEngine
    /\ last = [op |-> "init", raised |-> "none"]

Next ==
    \/ \E r \in RouteArguments, function \in Functions :
          response(r, function) /\ UNCHANGED << handlerVars, connectionVars, engineVars >>
    \/ \E r \in RouteArguments, function \in Functions :
          stream(r, function) /\ UNCHANGED << handlerVars, connectionVars, engineVars >>
    \/ \E r \in RouteArguments, function \in Functions :
          channel(r, function) /\ UNCHANGED << handlerVars, connectionVars, engineVars >>
    \/ \E r \in RouteArguments, function \in Functions :
          fire_and_forget(r, function) /\ UNCHANGED << handlerVars, connectionVars, engineVars >>
    \/ \E r \in RouteArguments, function \in Functions :
          metadata_push(r, function) /\ UNCHANGED << handlerVars, connectionVars, engineVars >>
    \/ \E function \in Functions : response_unknown(function) /\ UNCHANGED << handlerVars, connectionVars, engineVars >>
    \/ \E function \in Functions : stream_unknown(function) /\ UNCHANGED << handlerVars, connectionVars, engineVars >>
    \/ \E function \in Functions : channel_unknown(function) /\ UNCHANGED << handlerVars, connectionVars, engineVars >>
    \/ \E function \in Functions :
          fire_and_forget_unknown(function) /\ UNCHANGED << handlerVars, connectionVars, engineVars >>
    \/ \E function \in Functions :
          metadata_push_unknown(function) /\ UNCHANGED << handlerVars, connectionVars, engineVars >>
    \/ \E frame_type \in FrameType, r \in RequestRoutes,
          payload \in RoutePayloads, composite_metadata \in RouteMetadata :
          Route(frame_type, r, payload, composite_metadata)
          /\ UNCHANGED << handlerVars, connectionVars, engineVars >>

Spec == Init /\ [][Next]_vars

\* A RequestRouter being built: the registrations only.
RegistrationNext ==
    \/ \E r \in RouteArguments, function \in Functions :
          response(r, function) /\ UNCHANGED << handlerVars, connectionVars, engineVars >>
    \/ \E r \in RouteArguments, function \in Functions :
          stream(r, function) /\ UNCHANGED << handlerVars, connectionVars, engineVars >>
    \/ \E r \in RouteArguments, function \in Functions :
          channel(r, function) /\ UNCHANGED << handlerVars, connectionVars, engineVars >>
    \/ \E r \in RouteArguments, function \in Functions :
          fire_and_forget(r, function) /\ UNCHANGED << handlerVars, connectionVars, engineVars >>
    \/ \E r \in RouteArguments, function \in Functions :
          metadata_push(r, function) /\ UNCHANGED << handlerVars, connectionVars, engineVars >>
    \/ \E function \in Functions : response_unknown(function) /\ UNCHANGED << handlerVars, connectionVars, engineVars >>
    \/ \E function \in Functions : stream_unknown(function) /\ UNCHANGED << handlerVars, connectionVars, engineVars >>
    \/ \E function \in Functions : channel_unknown(function) /\ UNCHANGED << handlerVars, connectionVars, engineVars >>
    \/ \E function \in Functions :
          fire_and_forget_unknown(function) /\ UNCHANGED << handlerVars, connectionVars, engineVars >>
    \/ \E function \in Functions :
          metadata_push_unknown(function) /\ UNCHANGED << handlerVars, connectionVars, engineVars >>

SpecRegistration == Init /\ [][RegistrationNext]_vars

\* A RoutingRequestHandler answering the connection's SETUP frame and asked for
\* leases.
SetupInit ==
    /\ RouterInit
    /\ HandlerInit
    /\ NoConnection
    /\ NoEngine
    /\ last = [op |-> "init", raised |-> "none"]

SetupNext ==
    \/ /\ \E data_enc \in DataEncodings, metadata_enc \in MetadataEncodings :
             on_setup(data_enc, metadata_enc)
       /\ UNCHANGED << routerVars, connectionVars, engineVars >>
    \/ /\ supply_lease
       /\ UNCHANGED << routerVars, connectionVars, engineVars >>

SpecSetup == SetupInit /\ [][SetupNext]_vars

\* A RoutingRequestHandler on a router built beforehand, handed requests by the
\* connection.
HandlerSpecInit ==
    /\ RouterBuilt
    /\ authentication_verifier \in Verifiers
    /\ _lease_ttl = Nothing
    /\ _lease_max_requests = Nothing
    /\ data_encoding = "application/json"
    /\ metadata_encoding = MESSAGE_RSOCKET_COMPOSITE_METADATA
    /\ base_on_setup = 1
    /\ setup_frames = 1
    /\ sent_frames = << >>
    /\ NoConnection
    /\ NoEngine
    /\ last = [op |-> "init", raised |-> "none"]

HandlerNext ==
    \/ \E payload \in Payloads :
          /\ Handle("request_response", payload, request_response(payload))
          /\ UNCHANGED << routerVars, connectionVars, engineVars >>
    \/ \E payload \in Payloads :
          /\ Handle("request_stream", payload, request_stream(payload))
          /\ UNCHANGED << routerVars, connectionVars, engineVars >>
    \/ \E payload \in Payloads :
          /\ Handle("request_channel", payload, request_channel(payload))
          /\ UNCHANGED << routerVars, connectionVars, engineVars >>
    \/ \E payload \in Payloads :
          /\ Handle("request_fire_and_forget", payload, request_fire_and_forget(payload))
          /\ UNCHANGED << routerVars, connectionVars, engineVars >>
    \/ \E payload \in Payloads :
          /\ Handle("on_metadata_push", payload, on_metadata_push(payload))
          /\ UNCHANGED << routerVars, connectionVars, engineVars >>

SpecHandler == HandlerSpecInit /\ [][HandlerNext]_vars

\* A client and a server with a handler built on a router that holds route "a"
\* for every frame type; the client makes one request.
ConnectionInit ==
    /\ _response_routes = "a" :> "f1"
    /\ _stream_routes = "a" :> "f1"
    /\ _channel_routes = "a" :> "f1"
    /\ _fnf_routes = "a" :> "f1"
    /\ _metadata_push = "a" :> "f1"
    /\ _unknown = Handlers
    /\ _payload_mapper = "default"
    /\ registrations = 5
    /\ authentication_verifier \in Verifiers
    /\ _lease_ttl = Nothing
    /\ _lease_max_requests = Nothing
    /\ data_encoding = "application/json"
    /\ metadata_encoding = MESSAGE_RSOCKET_COMPOSITE_METADATA
    /\ base_on_setup = 1
    /\ setup_frames = 1
    /\ sent_frames = << >>
    /\ \/ /\ handler_factory = "RoutingRequestHandler"
          /\ responses = NoPublisher
          /\ responder_subscriber = NoSubscriber
       \/ /\ handler_factory = "Handler"
          /\ authentication_verifier = "always_allow_authenticator"
          /\ responses \in {StreamFromGenerator(count) : count \in 0..MaxItems}
                           \cup {FailingGenerator(count) : count \in 0..MaxItems}
                           \cup {SimpleCompleted, NoPublisher}
          /\ responder_subscriber \in {ResponderSubscriber, NoSubscriber}
    /\ to_server = << >>
    /\ to_client = << >>
    /\ requester = NoStream
    /\ responder = NoStream
    /\ handler_calls = << >>
    /\ logged = << >>
    /\ NoEngine
    /\ last = [op |-> "init", raised |-> "none"]

\* The payloads the client sends.  To a RoutingRequestHandler: routed as in the
\* tests, with credentials, or to a route that is not registered.  To a Handler:
\* Payload(b'request text').
ClientMetadata ==
    IF handler_factory = "RoutingRequestHandler"
    THEN {[well_formed |-> TRUE, items |-> q] :
             q \in { << Routing(<< "a" >>) >>,
                     << Routing(<< "a" >>), Authentication(<< "simple", "good" >>) >>,
                     << Routing(<< "b" >>), Authentication(<< "simple", "good" >>) >> }}
    ELSE {NoMetadata}
ClientPayloads ==
    {Payload(IF handler_factory = "RoutingRequestHandler" THEN "request data"
             ELSE "request text", metadata) : metadata \in ClientMetadata}

\* The subscribers and publishers of the client.
ClientSubscribers == {Unlimited} \cup {RequestLimit(n) : n \in 1..MaxRequestLimit}
ClientPublishers ==
    {from_list(sent_payloads(count)) : count \in 0..MaxItems}
    \cup {NoPublisher, ErrorStream("Some error")}

ConnectionNext ==
    \/ \E payload \in ClientPayloads :
          ClientRequestResponse(payload) /\ UNCHANGED << routerVars, handlerVars, engineVars, last >>
    \/ \E payload \in ClientPayloads :
          ClientFireAndForget(payload) /\ UNCHANGED << routerVars, handlerVars, engineVars, last >>
    \/ \E metadata \in ClientMetadata :
          ClientMetadataPush(metadata) /\ UNCHANGED << routerVars, handlerVars, engineVars, last >>
    \/ \E payload \in ClientPayloads, subscriber \in ClientSubscribers :
          ClientRequestStream(payload, subscriber)
          /\ UNCHANGED << routerVars, handlerVars, engineVars, last >>
    \/ \E payload \in ClientPayloads, publisher \in ClientPublishers,
          subscriber \in ClientSubscribers :
          ClientRequestChannel(payload, publisher, subscriber)
          /\ UNCHANGED << routerVars, handlerVars, engineVars, last >>
    \/ ServerReceive /\ UNCHANGED << routerVars, handlerVars, engineVars, last >>
    \/ ResponderEmit /\ UNCHANGED << routerVars, handlerVars, engineVars, last >>
    \/ RequesterEmit /\ UNCHANGED << routerVars, handlerVars, engineVars, last >>
    \/ ClientReceive /\ UNCHANGED << routerVars, handlerVars, engineVars, last >>

SpecConnection == ConnectionInit /\ [][ConnectionNext]_vars

\* A request/stream to a Handler of the tests, with progress: the event loops
\* of both sides run what is ready and the transport delivers what is sent.
StreamInit ==
    /\ ConnectionInit
    /\ handler_factory = "Handler"

StreamNext ==
    \/ \E payload \in ClientPayloads, subscriber \in ClientSubscribers :
          ClientRequestStream(payload, subscriber)
          /\ UNCHANGED << routerVars, handlerVars, engineVars, last >>
    \/ ServerReceive /\ UNCHANGED << routerVars, handlerVars, engineVars, last >>
    \/ ResponderEmit /\ UNCHANGED << routerVars, handlerVars, engineVars, last >>
    \/ ClientReceive /\ UNCHANGED << routerVars, handlerVars, engineVars, last >>

SpecStream == StreamInit /\ [][StreamNext]_vars /\ WF_vars(StreamNext)

\* The requester's side of a request/response: the request, the frames of any
\* responder in any order, and the requester's cancel.
RequestResponseNext ==
    \/ \E payload \in ClientPayloads :
          ClientRequestResponse(payload)
          /\ UNCHANGED << routerVars, handlerVars, engineVars, last >>
    \/ \E answer \in ResponseFrames :
          ResponderSends(answer)
          /\ UNCHANGED << routerVars, handlerVars, engineVars, last >>
    \/ ClientReceive /\ UNCHANGED << routerVars, handlerVars, engineVars, last >>
    \/ ClientCancel /\ UNCHANGED << routerVars, handlerVars, engineVars, last >>

SpecRequestResponse == ConnectionInit /\ [][RequestResponseNext]_vars

\* A frame fragmented with get_next_fragment and its fragments appended to a
\* FrameFragmentCache (test_fragmentation_payload, test_fragmentation_request),
\* or frames built by hand appended to one
\* (test_frame_building_should_fail_if_inconsistent_frame_type).
FragmentInit ==
    /\ RouterInit
    /\ NoHandler
    /\ NoConnection
    /\ frame \in FragmentableFrames \cup {NoFrame}
    /\ fragments = << >>
    /\ exhausted = FALSE
    /\ _frames_by_stream_id = FrameFragmentCache
    /\ appended = << >>
    /\ StreamIdInit
    /\ TableInit
    /\ last = [op |-> "init", raised |-> "none"]

FragmentNext ==
    \/ /\ GetNextFragment
       /\ UNCHANGED << routerVars, handlerVars, connectionVars, streamIdVars, tableVars, last >>
    \/ /\ AppendFragment
       /\ UNCHANGED << routerVars, handlerVars, connectionVars, streamIdVars, tableVars, last >>
    \/ \E f \in HandBuiltFrames :
          /\ AppendFrame(f)
          /\ UNCHANGED << routerVars, handlerVars, connectionVars, streamIdVars, tableVars, last >>

SpecFragment == FragmentInit /\ [][FragmentNext]_vars

\* A router that holds one function, of any of the parameter lists, under
\* route "a" of one frame type, and calls of route.
ArgumentsInit ==
    /\ \E frame_type \in FrameType, function \in AnnotatedFunctions :
          /\ _response_routes = IF frame_type = REQUEST_RESPONSE
                                THEN "a" :> function ELSE EmptyDict
          /\ _stream_routes = IF frame_type = REQUEST_STREAM
                              THEN "a" :> function ELSE EmptyDict
          /\ _channel_routes = IF frame_type = REQUEST_CHANNEL
                               THEN "a" :> function ELSE EmptyDict
          /\ _fnf_routes = IF frame_type = REQUEST_FNF THEN "a" :> function ELSE EmptyDict
          /\ _metadata_push = IF frame_type = METADATA_PUSH
                              THEN "a" :> function ELSE EmptyDict
    /\ _unknown = Handlers
    /\ _payload_mapper \in {"default", "typed"}
    /\ registrations = 1
    /\ NoHandler
    /\ NoConnection
    /\ NoEngine
    /\ last = [op |-> "init", raised |-> "none"]

ArgumentsNext ==
    \E frame_type \in FrameType, r \in RequestRoutes,
       payload \in ArgumentPayloads, composite_metadata \in ArgumentMetadata :
       Route(frame_type, r, payload, composite_metadata)
       /\ UNCHANGED << handlerVars, connectionVars, engineVars >>

SpecArguments == ArgumentsInit /\ [][ArgumentsNext]_vars

\* The streams of one connection: each side opens streams, streams finish.
StreamIdNext ==
    \/ \E side \in Sides :
          /\ AllocateStream(side)
          /\ UNCHANGED << routerVars, handlerVars, connectionVars, fragmentVars, tableVars, last >>
    \/ \E stream_id \in _streams :
          /\ FinishStream(stream_id)
          /\ UNCHANGED << routerVars, handlerVars, connectionVars, fragmentVars, tableVars, last >>

SpecStreamId == Init /\ [][StreamIdNext]_vars

\* One connection: either side opens streams, streams end, frames are read,
\* and either side closes at any moment.
CloseNext ==
    \/ \E side \in Sides :
          /\ OpenStream(side)
          /\ UNCHANGED << routerVars, handlerVars, connectionVars, fragmentVars, last >>
    \/ \E side \in Sides, stream_id \in 1..(2 * MaxOpened) :
          /\ Terminate(side, stream_id)
          /\ UNCHANGED << routerVars, handlerVars, connectionVars, fragmentVars, last >>
    \/ /\ Receive
       /\ UNCHANGED << routerVars, handlerVars, connectionVars, fragmentVars, last >>
    \/ \E side \in Sides :
          /\ Close(side)
          /\ UNCHANGED << routerVars, handlerVars, connectionVars, fragmentVars, last >>

SpecClose == Init /\ [][CloseNext]_vars

(***************************************************************************)
(* Properties of the route registry                                        *)
(***************************************************************************)

NamedRegistrations == {"response", "stream", "channel", "fire_and_forget", "metadata_push"}

\* The route table a registration operation writes.
TableOfOperation(op) ==
    CASE op = "response" -> _response_routes
      [] op = "stream" -> _stream_routes
      [] op = "channel" -> _channel_routes
      [] op = "fire_and_forget" -> _fnf_routes
      [] op = "metadata_push" -> _metadata_push

\* The route table and the fallback of a frame type.
TableOfFrameType(frame_type) ==
    CASE frame_type = REQUEST_RESPONSE -> _response_routes
      [] frame_type = REQUEST_STREAM -> _stream_routes
      [] frame_type = REQUEST_CHANNEL -> _channel_routes
      [] frame_type = REQUEST_FNF -> _fnf_routes
      [] frame_type = METADATA_PUSH -> _metadata_push

FallbackOfFrameType(frame_type) ==
    CASE frame_type = REQUEST_RESPONSE -> _unknown.response
      [] frame_type = REQUEST_STREAM -> _unknown.stream
      [] frame_type = REQUEST_CHANNEL -> _unknown.channel
      [] frame_type = REQUEST_FNF -> _unknown.fire_and_forget
      [] frame_type = METADATA_PUSH -> _unknown.metadata_push

AllTables == {_response_routes, _stream_routes, _channel_routes, _fnf_routes, _metadata_push}

\* C1: a registration operation called with a route that its own route table
\* already holds raises KeyError, whichever of the five operations and
\* whichever route it is.
C1_DuplicateRouteRaisesKeyError ==
    [][(/\ last'.op \in NamedRegistrations
        /\ last'.route \in DOMAIN TableOfOperation(last'.op))
       => last'.raised = "KeyError"]_vars

\* C1 witness: response("a") applied to a second function after "a" was
\* registered with another one, raising KeyError.
C1_Witness ==
    /\ last.op = "response"
    /\ last.route = "a"
    /\ last.raised = "KeyError"
    /\ _response_routes["a"] # last.function

\* C2: a registration with the empty route or None raises RSocketEmptyRoute
\* (not KeyError), and no route table ever holds the empty route or None as a key.
C2_EmptyRouteRejected ==
    /\ (last.op \in NamedRegistrations /\ last.route \in {None, ""})
          => last.raised = "RSocketEmptyRoute"
    /\ \A table \in AllTables : None \notin DOMAIN table /\ "" \notin DOMAIN table

\* C2 witness: a registration with None was rejected on a router that already
\* holds routes.
C2_Witness ==
    /\ last.op \in NamedRegistrations
    /\ last.route = None
    /\ last.raised = "RSocketEmptyRoute"
    /\ registrations > 0

\* C3: route(F, r) calls the function registered for (F, r) when there is one,
\* else the fallback of F when there is one, else raises RSocketUnknownRoute and
\* calls nothing; in the first two cases exactly one call is made.
C3_RouteDispatch ==
    last.op = "route" =>
        LET table == TableOfFrameType(last.frame_type)
            fallback == FallbackOfFrameType(last.frame_type)
        IN IF last.route \in DOMAIN table
           THEN /\ last.raised = "none"
                /\ Len(last.calls) = 1
                /\ last.calls[1].function = table[last.route]
           ELSE IF fallback # None
           THEN /\ last.raised = "none"
                /\ Len(last.calls) = 1
                /\ last.calls[1].function = fallback
           ELSE /\ last.raised = "RSocketUnknownRoute"
                /\ last.calls = << >>

\* C3 witness: a route registered and a different fallback set for the same
\* frame type, and route called the registered function.
C3_Witness ==
    /\ last.op = "route"
    /\ last.route \in DOMAIN TableOfFrameType(last.frame_type)
    /\ FallbackOfFrameType(last.frame_type) # None
    /\ FallbackOfFrameType(last.frame_type) # TableOfFrameType(last.frame_type)[last.route]
    /\ Len(last.calls) = 1

(***************************************************************************)
(* Properties of the routing request handler                               *)
(***************************************************************************)

\* C10: on_setup raises whenever the metadata mime type is not
\* message/x.rsocket.composite-metadata.v0, and then leaves data_encoding and
\* metadata_encoding unset and does not run the base on_setup; with that mime
\* type it stores both encodings, runs the base on_setup and does not raise.
C10_OnSetup ==
    last.op = "on_setup" =>
        IF last.metadata_encoding # "message/x.rsocket.composite-metadata.v0"
        THEN /\ last.raised # "none"
             /\ data_encoding = Unset
             /\ metadata_encoding = Unset
             /\ base_on_setup = 0
        ELSE /\ last.raised = "none"
             /\ data_encoding = last.data_encoding
             /\ metadata_encoding = last.metadata_encoding
             /\ base_on_setup = 1

\* C10 witness: a setup naming another metadata mime type has been refused.
C10_Witness ==
    /\ last.op = "on_setup"
    /\ last.metadata_encoding = "application/json"
    /\ last.raised = "Exception"
    /\ data_encoding = Unset

\* The entry points of the four interaction models and the frame type of each.
EntryPoints == {"request_response", "request_stream", "request_channel",
                "request_fire_and_forget"}

FrameTypeOfEntryPoint(op) ==
    CASE op = "request_response" -> REQUEST_RESPONSE
      [] op = "request_stream" -> REQUEST_STREAM
      [] op = "request_channel" -> REQUEST_CHANNEL
      [] op = "request_fire_and_forget" -> REQUEST_FNF

\* The functions called while the last request was handled, in order.
FunctionsCalled ==
    LET called == SelectSeq(last.events, LAMBDA e : e.event = "call")
    IN [i \in 1..Len(called) |-> called[i].function]

\* The last request named a route and was let through by the authentication
\* check, so it reached the dispatch.
ReachedDispatch ==
    /\ last.op \in EntryPoints
    /\ last.exception \in {"none", "TypeError", "RSocketUnknownRoute"}

\* C4: a request that arrives through the entry point of interaction model M
\* with route r is dispatched with the route table and the fallback of M only:
\* the function called is the one registered for (M, r), else the fallback of M,
\* else none, and never a function registered for r under another model.
C4_DispatchedByInteractionModel ==
    ReachedDispatch =>
        LET frame_type == FrameTypeOfEntryPoint(last.op)
            r == _require_route(last.payload.metadata.items).route
            table == TableOfFrameType(frame_type)
            fallback == FallbackOfFrameType(frame_type)
        IN FunctionsCalled = IF r \in DOMAIN table THEN << table[r] >>
                             ELSE IF fallback # None THEN << fallback >>
                             ELSE << >>

(***************************************************************************)
(* Properties of requests over a connection                                *)
(***************************************************************************)

\* The client's request is of the given frame type, the server's handler is a
\* RoutingRequestHandler and the routing entry of the request names a route
\* registered for that frame type.
RoutedRequest(frame_type) ==
    /\ handler_factory = "RoutingRequestHandler"
    /\ requester.type = frame_type
    /\ _require_route(requester.payload.metadata.items).route
           \in DOMAIN TableOfFrameType(frame_type)

\* The request carries a routing entry only and the handler was built with
\* default arguments.
AsInTheTests ==
    /\ Len(requester.payload.metadata.items) = 1
    /\ authentication_verifier = "always_allow_authenticator"

\* The server has handled the request frame.
ServerHandled == responder.type = requester.type

\* C5: a request_response carrying only a routing entry for a route registered
\* with response(route), to a RoutingRequestHandler with default arguments,
\* resolves with the payload the route function returned (data b"result", no
\* metadata) and not with an error.
C5_RoutedRequestResponse ==
    (RoutedRequest(REQUEST_RESPONSE) /\ AsInTheTests /\ requester.state = "finished")
        => requester.signals = << [signal |-> "set_result",
                                   payload |-> Payload("result", NoMetadata)] >>

\* The signals of a subscriber that received all of the items and a completion.
OnNext(items, flagged) ==
    [x \in 1..Len(items) |->
        [signal |-> "on_next", payload |-> items[x],
         is_complete |-> flagged /\ x = Len(items)]]

Completed(items, flagged) == OnNext(items, flagged) \o << [signal |-> "on_complete"] >>

\* C6: when the route function's publisher yields items 0, 1, 2 with the
\* completion flag on item 2, the client's subscriber receives those three
\* payloads in that order, then one completion, and nothing afterwards.
C6_RoutedRequestStream ==
    (RoutedRequest(REQUEST_STREAM) /\ requester.state = "finished")
        => /\ requester.signals
                = << [signal |-> "on_subscribe"] >> \o Completed(Feed(3), TRUE)
           /\ responder.state = "finished"

\* C8: a fire_and_forget routed to a path registered with fire_and_forget(route)
\* invokes that function once, with a payload whose data is the data sent, and
\* no frame is sent back.
C8_RoutedFireAndForget ==
    (RoutedRequest(REQUEST_FNF) /\ ServerHandled)
        => /\ Len(handler_calls) = 1
           /\ handler_calls[1].function = _fnf_routes["a"]
           /\ handler_calls[1].kwargs["payload"].data = requester.payload.data
           /\ to_client = << >>

\* C9: a metadata_push routed to a path registered with metadata_push(route),
\* on a RoutingRequestHandler, invokes that function with a payload whose
\* metadata is the metadata pushed, and no response is sent.
C9_RoutedMetadataPush ==
    (RoutedRequest(METADATA_PUSH) /\ ServerHandled)
        => /\ Len(handler_calls) = 1
           /\ handler_calls[1].function = _metadata_push["a"]
           /\ handler_calls[1].kwargs["payload"].metadata = requester.payload.metadata
           /\ to_client = << >>

\* s is a prefix of t.
IsPrefix(s, t) == Len(s) <= Len(t) /\ s = SubSeq(t, 1, Len(s))

\* A request/channel whose publishers both complete: the requester's is absent
\* (the request is flagged complete) or an observable of a list, the
\* responder's is absent or a generator that flags its last item; the
\* responder has a subscriber that requests, or the requester sends nothing.
CompletingChannel ==
    /\ handler_factory = "Handler"
    /\ requester.type = REQUEST_CHANNEL
    /\ requester.publisher.ending \in {"absent", "on_completed"}
    /\ responses.ending \in {"absent", "complete", "complete on last"}
    /\ responder_subscriber.present \/ requester.publisher.ending = "absent"

\* What the two subscribers of the channel are to receive.
RequesterReceives ==
    << [signal |-> "on_subscribe"] >> \o Completed(responses.items, Len(responses.items) > 0)

ResponderReceives ==
    IF responder_subscriber.present
    THEN << [signal |-> "on_subscribe"] >> \o Completed(requester.publisher.items, FALSE)
    ELSE << >>

\* No frame is in flight and no publisher can signal.
Quiescent == ~ENABLED ConnectionNext

LastItems == last.payload.metadata.items

LastRouted ==
    /\ last.op \in EntryPoints
    /\ last.payload.metadata.well_formed
    /\ _require_route(LastItems).raised = "none"

LastRoute == _require_route(LastItems).route

\* The index of the first AUTHENTICATION entry of the last request, 0 for none.
LastAuthentication == FirstOfKind(LastItems, "AuthenticationContent")

\* The calls of the verifier, and the calls of the router and of route
\* functions, made for the last request.
VerifyEvents == SelectSeq(last.events, LAMBDA e : e.event = "verify")
Dispatches == SelectSeq(last.events, LAMBDA e : e.event \in {"router.route", "call"})

\* What an entry point returns when its request fails.
ErrorValue(op) ==
    CASE op = "request_response" -> "error future"
      [] op = "request_stream" -> "ErrorStream"
      [] op = "request_channel" -> "ErrorStream, NullSubscriber"
      [] op = "request_fire_and_forget" -> "None (error logged)"

\* C11: when a request carries an AUTHENTICATION entry and a verifier is
\* configured, the verifier is called once with (route, authentication); when
\* it raises, the request ends with that error, and neither the router nor a
\* route function or fallback is called.
C11_AuthenticatorInvoked ==
    (LastRouted /\ authentication_verifier # None /\ LastAuthentication # 0) =>
        LET authentication == LastItems[LastAuthentication].content
            failure == verify(authentication_verifier, LastRoute, authentication)
        IN /\ VerifyEvents = << VerifyEvent(LastRoute, authentication) >>
           /\ failure # "none" =>
                 /\ last.exception = failure
                 /\ last.value = ErrorValue(last.op)
                 /\ Dispatches = << >>

\* C11 witness: the verifier raised for a request to a route that is not
\* registered while a fallback is set for the frame type.
C11_Witness ==
    /\ LastRouted
    /\ authentication_verifier = "authenticator"
    /\ LastRoute = "b"
    /\ FallbackOfFrameType(FrameTypeOfEntryPoint(last.op)) # None
    /\ Len(VerifyEvents) = 1
    /\ last.exception = "Authentication error"

\* C12: authentication precedes dispatch: the router (and with it any route
\* function or fallback) is called only after the verifier, when one is
\* configured, was called for the request and returned, also for a route that
\* is not registered.
C12_AuthenticationPrecedesDispatch ==
    last.op \in EntryPoints =>
        \A i \in 1..Len(last.events) :
            last.events[i].event \in {"router.route", "call"} =>
                \/ authentication_verifier = None
                \/ \E j \in 1..(i - 1) :
                      /\ last.events[j].event = "verify"
                      /\ verify(authentication_verifier, last.events[j].route,
                                last.events[j].authentication) = "none"

\* C12 witness: a request to a route that is not registered, with a fallback
\* set for its frame type, was verified and then handed to the router.
C12_Witness ==
    /\ LastRouted
    /\ authentication_verifier = "authenticator"
    /\ LastRoute = "b"
    /\ FallbackOfFrameType(FrameTypeOfEntryPoint(last.op)) # None
    /\ Len(last.events) >= 2
    /\ last.events[1].event = "verify"
    /\ last.events[2] = RouteEvent("b")

C14_FireAndForgetLogsOnly ==
    last.op = "request_fire_and_forget" =>
        /\ last.raised = "none"
        /\ last.value = IF last.exception = "none" THEN "None" ELSE "None (error logged)"

\* C14 witness: a fire-and-forget request failed at the call of the router,
\* after its metadata parsed, its route was found and its authentication passed.
C14_Witness ==
    /\ last.op = "request_fire_and_forget"
    /\ last.exception = "TypeError"
    /\ last.value = "None (error logged)"

\* C15: request_response, request_stream and request_channel do not raise: a
\* failing request comes back as a failed future, an ErrorStream, or an
\* ErrorStream with a NullSubscriber, carrying the exception.
C15_FailureConfinedToStream ==
    last.op \in {"request_response", "request_stream", "request_channel"} =>
        /\ last.raised = "none"
        /\ last.value = IF last.exception = "none" THEN "returned" ELSE ErrorValue(last.op)

\* C15 witness: a request_channel without a routing entry came back as
\* (ErrorStream, NullSubscriber).
C15_Witness ==
    /\ last.op = "request_channel"
    /\ last.exception = "No route found in request"
    /\ last.value = "ErrorStream, NullSubscriber"

(***************************************************************************)
(* Properties of RequestChannelResponder                                   *)
(***************************************************************************)

\* The step in which the server handles the initial REQUEST_CHANNEL frame.
InitialFrameHandled ==
    /\ to_server # << >>
    /\ Head(to_server).type = REQUEST_CHANNEL
    /\ to_server' = Tail(to_server)

\* The number of COMPLETE frames (PAYLOAD with the complete flag) among frames.
Completes(frames) ==
    Cardinality({i \in 1..Len(frames) :
                    frames[i].type = "PAYLOAD" /\ frames[i].flags_complete})

\* C16: on the initial REQUEST_CHANNEL frame the responder does one of two
\* things: without a subscription it sends one COMPLETE and marks its outbound
\* direction completed, requesting nothing; with one it requests the frame's
\* initial_request_n from it and sends no COMPLETE.
C16_InitialFrameRequestsOrCompletes ==
    [][InitialFrameHandled =>
          IF responder'.publisher = NoPublisher
          THEN /\ Completes(to_client') = 1
               /\ responder'.sent_complete
               /\ responder'.demand = 0
          ELSE /\ Completes(to_client') = 0
               /\ ~responder'.sent_complete
               /\ responder'.demand = Head(to_server).initial_request_n]_vars

\* C16 witness: a handler that returned no publisher; the responder has sent
\* COMPLETE for the channel and marked its outbound direction completed.
C16_Witness ==
    /\ responder.type = REQUEST_CHANNEL
    /\ responder.publisher = NoPublisher
    /\ responder.sent_complete
    /\ responder.demand = 0
    /\ Completes(to_client) = 1

\* C17: when the initial REQUEST_CHANNEL frame is flagged complete, the
\* responder's remote subscriber is completed and the requester's direction
\* marked complete while that frame is handled; otherwise that direction is
\* open after the frame.
C17_InitialFrameCompleteFlag ==
    [][InitialFrameHandled =>
          /\ responder'.received_complete = Head(to_server).flags_complete
          /\ responder'.signals =
                 IF ~responder'.subscriber.present THEN << >>
                 ELSE IF Head(to_server).flags_complete
                 THEN << [signal |-> "on_subscribe"], [signal |-> "on_complete"] >>
                 ELSE << [signal |-> "on_subscribe"] >>]_vars

\* C17 witness: the request was flagged complete; the responder's subscriber
\* has received on_complete and nothing else while the responder's own
\* direction is still open.
C17_Witness ==
    /\ responder.type = REQUEST_CHANNEL
    /\ responder.state = "open"
    /\ responder.received_complete
    /\ ~responder.sent_complete
    /\ responder.signals = << [signal |-> "on_subscribe"], [signal |-> "on_complete"] >>

\* C18: a handler that returns (publisher, None): the requester receives every
\* payload of the responder's publisher in order and then completion, whatever
\* its request limit; the direction is neither cut short nor blocked.
C18_ResponseOnlyChannel ==
    (/\ handler_factory = "Handler"
     /\ requester.type = REQUEST_CHANNEL
     /\ ~responder_subscriber.present
     /\ requester.publisher.ending \in {"absent", "on_completed"}
     /\ responses.ending \in {"complete", "complete on last"})
        => /\ IsPrefix(requester.signals, RequesterReceives)
           /\ Quiescent => requester.signals = RequesterReceives

\* C18 witness: three items through a request limit of 2 with no subscriber
\* on the responder, all received and the channel finished.
C18_Witness ==
    /\ handler_factory = "Handler"
    /\ requester.type = REQUEST_CHANNEL
    /\ ~responder_subscriber.present
    /\ requester.publisher = NoPublisher
    /\ requester.subscriber = RequestLimit(2)
    /\ Len(responses.items) = 3
    /\ requester.signals = RequesterReceives
    /\ requester.state = "finished"
    /\ responder.state = "finished"

\* The requester's publisher signals on_error("Some error") and the responder
\* answers with a generator of any number of items.
RequesterErrors ==
    /\ handler_factory = "Handler"
    /\ requester.type = REQUEST_CHANNEL
    /\ requester.publisher = ErrorStream("Some error")
    /\ responder_subscriber.present
    /\ responses.ending \in {"complete", "complete on last"}

ResponderReceivesError ==
    << [signal |-> "on_subscribe"], [signal |-> "on_error", message |-> "Some error"] >>

\* C19: when the requester's publisher signals on_error(e), the responder's
\* subscriber receives on_error with the message of e, and nothing else, and
\* the stream closes on both sides, however many items the responder's
\* publisher has and whatever the requester's request limit.
C19_RequesterError ==
    RequesterErrors =>
        /\ IsPrefix(responder.signals, ResponderReceivesError)
        /\ Quiescent =>
              /\ responder.signals = ResponderReceivesError
              /\ responder.state = "finished"
              /\ requester.state = "finished"

\* C19 witness: the responder has three items, the requester a request limit
\* of 2; the responder's subscriber received the error and the stream closed.
C19_Witness ==
    /\ RequesterErrors
    /\ Len(responses.items) = 3
    /\ requester.subscriber = RequestLimit(2)
    /\ responder.signals = ResponderReceivesError
    /\ responder.state = "finished"
    /\ requester.state = "finished"

\* The step finishes a channel's stream entry.
FinishesChannel(before, after) ==
    /\ after.type = REQUEST_CHANNEL
    /\ before.state # "finished"
    /\ after.state = "finished"

\* The step takes an ERROR frame from a queue, or appends one to a queue.
ErrorTaken(queue, after) ==
    queue # << >> /\ Head(queue).type = "ERROR" /\ after = Tail(queue)

ErrorSent(queue, after) ==
    Len(after) > Len(queue) /\ after[Len(after)].type = "ERROR"

\* C20: a channel's stream is finished only when both of its directions are
\* complete or an ERROR was sent or received; completing one direction alone
\* does not finish it.
C20_ChannelFinishesWhenBothTerminal ==
    [][/\ FinishesChannel(responder, responder') =>
             \/ responder'.sent_complete /\ responder'.received_complete
             \/ ErrorTaken(to_server, to_server')
             \/ ErrorSent(to_client, to_client')
       /\ FinishesChannel(requester, requester') =>
             \/ requester'.sent_complete /\ requester'.received_complete
             \/ ErrorTaken(to_client, to_client')
             \/ ErrorSent(to_server, to_server')]_vars

\* C20 witness: the responder has sent COMPLETE (it has no publisher) while
\* the requester's direction is open, and the stream is still open.
C20_Witness ==
    /\ responder.type = REQUEST_CHANNEL
    /\ responder.publisher = NoPublisher
    /\ responder.sent_complete
    /\ ~responder.received_complete
    /\ responder.state = "open"

(***************************************************************************)
(* Properties of fragmentation                                             *)
(***************************************************************************)

\* Every fragment of the frame has been produced and appended, in order, to
\* the cache, which was empty before.
Reassembled ==
    /\ frame # NoFrame
    /\ exhausted
    /\ Len(appended) = Len(fragments)
    /\ \A i \in 1..Len(appended) : appended[i].frame = fragments[i]

\* C21: fragmentation round trip.  For every payload (data and metadata, each
\* possibly empty), every fragment size from 3 and every head frame type, the
\* fragments of get_next_fragment appended in order to an empty
\* FrameFragmentCache give None for every fragment but the last and, on the
\* last append, a frame with the original data, the original metadata and the
\* type of the head frame.
C21_FragmentationRoundTrip ==
    Reassembled =>
        /\ \A i \in 1..(Len(appended) - 1) :
              appended[i].raised = "none" /\ appended[i].value = << >>
        /\ appended[Len(appended)].raised = "none"
        /\ Len(appended[Len(appended)].value) = 1
        /\ appended[Len(appended)].value[1].data = frame.data
        /\ appended[Len(appended)].value[1].metadata = frame.metadata
        /\ appended[Len(appended)].value[1].type = fragments[1].type
        /\ appended[Len(appended)].value[1].type = frame.type
        /\ frame.type \in FragmentableTypes

\* A REQUEST_STREAM frame with 8 bytes of data and 6 of metadata went through
\* the cache in 5 fragments of 3 bytes.
C21_Witness ==
    /\ Reassembled
    /\ frame.type = REQUEST_STREAM
    /\ frame.data = data_bytes(8)
    /\ frame.metadata = metadata_bytes(6)
    /\ frame.fragment_size_bytes = 3
    /\ Len(appended) = 5
    /\ appended[5].value # << >>

\* C22: in the fragments produced for a frame every fragment but the last has
\* FOLLOWS set and the last has not; the first has the type of the frame and
\* every later one is a PAYLOAD frame; after the fragment without FOLLOWS
\* get_next_fragment returns None, and not before.
C22_FollowsAndTypes ==
    /\ \A i \in 1..(Len(fragments) - 1) : fragments[i].flags_follows
    /\ exhausted => (fragments # << >> /\ ~fragments[Len(fragments)].flags_follows)
    /\ fragments # << >> =>
          /\ fragments[1].type = frame.type
          /\ fragments[Len(fragments)].flags_follows
                = (get_next_fragment(frame).fragment # << >>)
    /\ \A i \in 2..Len(fragments) : fragments[i].type = PAYLOAD

\* The generator of a REQUEST_RESPONSE frame is used up after three or more
\* fragments.
C22_Witness ==
    /\ exhausted
    /\ frame.type = REQUEST_RESPONSE
    /\ Len(fragments) >= 3

\* ceil(a / b)
ceil_div(a, b) == (a + b - 1) \div b

\* C23: a frame with data or metadata gives exactly
\* ceil((len(data) + len(metadata)) / fragment_size) fragments: every fragment
\* but the last carries fragment_size bytes, the metadata first and the data
\* right behind it, so one fragment can hold the end of the metadata and the
\* start of the data.
C23_FragmentCount ==
    (exhausted /\ Len(frame.data) + Len(frame.metadata) > 0) =>
        /\ Len(fragments) = ceil_div(Len(frame.data) + Len(frame.metadata),
                                     frame.fragment_size_bytes)
        /\ \A i \in 1..(Len(fragments) - 1) :
              Len(fragments[i].metadata) + Len(fragments[i].data)
                 = frame.fragment_size_bytes
        /\ (Len(frame.data) = 8 /\ Len(frame.metadata) = 6
            /\ frame.fragment_size_bytes = 3) => Len(fragments) = 5
        /\ (Len(frame.data) = 2 /\ Len(frame.metadata) = 2
            /\ frame.fragment_size_bytes = 3) => Len(fragments) = 2

\* data b'12', metadata b'45', fragments of 3 bytes: the first fragment holds
\* the metadata and the first byte of the data.
C23_Witness ==
    /\ exhausted
    /\ frame.data = data_bytes(2)
    /\ frame.metadata = metadata_bytes(2)
    /\ frame.fragment_size_bytes = 3
    /\ Len(fragments) = 2
    /\ fragments[1].metadata = metadata_bytes(2)
    /\ fragments[1].data = data_bytes(1)

RequestTypes == {REQUEST_RESPONSE, REQUEST_STREAM, REQUEST_CHANNEL}

\* The type of the first fragment of the frame under construction on a stream
\* after the first i calls of cache.append, None where there is none: a
\* fragment with FOLLOWS starts or continues one, a fragment without FOLLOWS
\* ends it, a call that raises leaves it.
RECURSIVE UnderConstruction(_, _)
UnderConstruction(i, stream_id) ==
    IF i = 0 THEN None
    ELSE IF appended[i].frame.stream_id # stream_id \/ appended[i].raised # "none"
         THEN UnderConstruction(i - 1, stream_id)
         ELSE IF ~appended[i].frame.flags_follows THEN None
              ELSE IF UnderConstruction(i - 1, stream_id) = None
                   THEN appended[i].frame.type
                   ELSE UnderConstruction(i - 1, stream_id)

\* C24: once a fragment of a request type with FOLLOWS is in the cache for a
\* stream, appending a frame of another request type for that stream raises
\* RSocketFrameFragmentDifferentType and returns no frame, while a PAYLOAD
\* frame is accepted: None with FOLLOWS, the combined frame of the head's type
\* without.
C24_FragmentDifferentType ==
    \A i \in 1..Len(appended) :
        UnderConstruction(i - 1, appended[i].frame.stream_id) \in RequestTypes =>
            /\ (/\ appended[i].frame.type \in RequestTypes
                /\ appended[i].frame.type
                      # UnderConstruction(i - 1, appended[i].frame.stream_id))
               => (/\ appended[i].raised = RSocketFrameFragmentDifferentType
                   /\ appended[i].value = << >>)
            /\ appended[i].frame.type = PAYLOAD
               => (/\ appended[i].raised = "none"
                   /\ appended[i].frame.flags_follows => appended[i].value = << >>
                   /\ ~appended[i].frame.flags_follows =>
                         /\ Len(appended[i].value) = 1
                         /\ appended[i].value[1].type
                               = UnderConstruction(i - 1, appended[i].frame.stream_id))

\* first_frame a REQUEST_RESPONSE with FOLLOWS, second_frame a REQUEST_CHANNEL
\* without, on one stream: the second append raised.
C24_Witness ==
    /\ Len(appended) = 2
    /\ appended[1].frame.type = REQUEST_RESPONSE
    /\ appended[1].frame.flags_follows
    /\ appended[2].frame.type = REQUEST_CHANNEL
    /\ ~appended[2].frame.flags_follows
    /\ appended[2].frame.stream_id = appended[1].frame.stream_id
    /\ appended[2].raised = RSocketFrameFragmentDifferentType

(***************************************************************************)
(* Properties of subscribers and of credit                                 *)
(***************************************************************************)

\* The stream entries of the connection that have a subscriber: the
\* requester's of a request/stream or request/channel, the responder's of a
\* request/channel whose handler returned one.
Subscribed ==
    {entry \in {requester, responder} :
        entry.type \in {REQUEST_STREAM, REQUEST_CHANNEL} /\ entry.subscriber.present}

\* on_subscribe (on_next)* (on_complete | on_error)?
SignalGrammar(signals) ==
    /\ signals # << >>
    /\ signals[1].signal = "on_subscribe"
    /\ \A i \in 2..Len(signals) : signals[i].signal \in {"on_next", "on_complete", "on_error"}
    /\ \A i \in 1..(Len(signals) - 1) : signals[i].signal \notin {"on_complete", "on_error"}

\* C25: the signals a subscriber of a stream has received are, at every
\* moment, on_subscribe (on_next)* (on_complete | on_error)? : on_subscribe
\* first and once, at most one terminal signal, nothing after it.
C25_SignalGrammar ==
    \A entry \in Subscribed : SignalGrammar(entry.signals)

\* C25 witness: the subscriber of a request/stream has received on_subscribe,
\* three items and on_complete.
C25_Witness ==
    /\ requester.type = REQUEST_STREAM
    /\ Len(requester.signals) = 5
    /\ requester.signals[1].signal = "on_subscribe"
    /\ requester.signals[4].signal = "on_next"
    /\ requester.signals[5].signal = "on_complete"

\* The stream entries that send payloads against credit: both sides of a
\* request/stream and of a request/channel.
Credited ==
    {entry \in {requester, responder} : entry.type \in {REQUEST_STREAM, REQUEST_CHANNEL}}

\* C26: credit accounting.  On every stream, at every moment, the PAYLOAD(NEXT)
\* frames a side has sent are at most the initial_request_n plus the n of the
\* REQUEST_N frames it has received, and what it has requested from its
\* publisher and not yet sent (demand) is within the credit that is left: with
\* no credit left it requests nothing until a REQUEST_N arrives.
C26_CreditAccounting ==
    \A entry \in Credited :
        /\ entry.next_sent <= entry.credits_received
        /\ entry.next_sent + entry.demand <= entry.credits_received
        /\ entry.next_sent = entry.credits_received => ~(entry.demand > 0)

\* C26 witness: a channel's responder with a generator of three items and a
\* REQUEST_CHANNEL frame of initial_request_n 2: two PAYLOAD(NEXT) frames are
\* sent, the credit is used up, and the third item waits for a REQUEST_N.
C26_Witness ==
    /\ responder.type = REQUEST_CHANNEL
    /\ responder.state = "open"
    /\ Len(responder.publisher.items) = 3
    /\ responder.credits_received = 2
    /\ responder.next_sent = 2
    /\ responder.demand = 0

(***************************************************************************)
(* Properties of request/stream                                            *)
(***************************************************************************)

\* A request/stream answered by a generator that yields its items and then
\* raises, the requester granting credit in windows of request_limit.
StreamWithError ==
    /\ handler_factory = "Handler"
    /\ requester.type = REQUEST_STREAM
    /\ requester.subscriber.replenish
    /\ responses.ending = "error"

\* The requester has observed the items and then the error.
ErrorObserved ==
    /\ requester.signals =
          << [signal |-> "on_subscribe"] >> \o OnNext(responses.items, FALSE)
          \o << [signal |-> "on_error", message |-> "Some error from responder"] >>
    /\ requester.state = "finished"
    /\ responder.state = "finished"

\* C27: request/stream under limited credit.  When the responder's publisher
\* emits k items and then fails and the requester grants credit in windows of
\* request_limit, the requester eventually observes the k items and the error,
\* for k below, equal to and above request_limit (0..MaxItems against
\* 1..MaxRequestLimit): the stream does not stall.
C27_ErrorGetsThrough == StreamWithError ~> ErrorObserved

\* C27 witness: three items and the error through a request_limit of 2.
C27_Witness ==
    /\ StreamWithError
    /\ requester.subscriber.limit = 2
    /\ Len(responses.items) = 3
    /\ ErrorObserved

\* A request/stream answered by SimpleCompleted, which answers request(n) with
\* on_complete.
ImmediateComplete ==
    /\ handler_factory = "Handler"
    /\ requester.type = REQUEST_STREAM
    /\ responses = SimpleCompleted

\* The requester's stream has completed without a payload and the stream is
\* closed on both sides.
CompletedEmpty ==
    /\ requester.signals = << [signal |-> "on_subscribe"], [signal |-> "on_complete"] >>
    /\ requester.state = "finished"
    /\ responder.state = "finished"

\* C28: request/stream immediate completion.  When the responder's publisher
\* answers its first request(n) with on_complete and no item, the requester
\* never receives a payload or an error, and eventually its stream has
\* completed with zero payloads and the stream is closed on both sides.
C28_ImmediateComplete ==
    /\ [](ImmediateComplete =>
             IsPrefix(requester.signals,
                      << [signal |-> "on_subscribe"], [signal |-> "on_complete"] >>))
    /\ ImmediateComplete ~> CompletedEmpty

\* C28 witness: the request with request_limit 2 has completed without a
\* payload; the responder sent one frame, COMPLETE without NEXT.
C28_Witness ==
    /\ ImmediateComplete
    /\ requester.subscriber = RequestLimit(2)
    /\ CompletedEmpty
    /\ responder.next_sent = 0

(***************************************************************************)
(* Properties of request/response on the requester's side                  *)
(***************************************************************************)

\* The outcome a signal of the requester's future stands for.
Outcome(signal) ==
    CASE signal.signal = "set_result" ->
            IF signal.payload = EmptyPayload THEN "resolved empty"
            ELSE "resolved with a payload"
      [] signal.signal = "set_exception" -> "rejected with an error"
      [] signal.signal = "cancelled" -> "cancelled by the requester"
      [] OTHER -> "other"

FourOutcomes ==
    {"resolved with a payload", "resolved empty", "rejected with an error",
     "cancelled by the requester"}

\* The request/response has at most one outcome, one of the four, and has one
\* exactly when its stream is finished.
OneOutcome ==
    requester.type = REQUEST_RESPONSE =>
        /\ Len(requester.signals) <= 1
        /\ \A i \in 1..Len(requester.signals) : Outcome(requester.signals[i]) \in FourOutcomes
        /\ (requester.state = "finished") = (Len(requester.signals) = 1)

\* C29: a request/response on the requester's side ends with exactly one of
\* four outcomes: resolved with a payload, resolved empty, rejected with an
\* error, cancelled by the requester.  It never has two, in whatever order
\* PAYLOAD, ERROR and the requester's cancel come: once it has ended, its
\* outcome stays, and a response that arrives after the cancel is dropped.
C29_ExactlyOneOutcome ==
    /\ []OneOutcome
    /\ [][(requester.type = REQUEST_RESPONSE /\ requester.state = "finished")
            => requester' = requester]_vars

\* C29 witness: the requester has cancelled and sent CANCEL behind its request;
\* an ERROR of the responder is on its way to it.
C29_Witness ==
    /\ requester.type = REQUEST_RESPONSE
    /\ requester.signals = << [signal |-> "cancelled"] >>
    /\ Len(to_server) = 2
    /\ to_server[2] = CancelFrame
    /\ to_client = << ErrorFrame("Some error from responder") >>

(***************************************************************************)
(* Properties of stream ids                                                *)
(***************************************************************************)

\* The ids a side has allocated, in order.
RECURSIVE IdsOf(_, _)
IdsOf(side, n) ==
    IF n = 0 THEN << >>
    ELSE IF allocated[n].side = side
         THEN Append(IdsOf(side, n - 1), allocated[n].stream)
         ELSE IdsOf(side, n - 1)

\* C30: stream-id allocation.  On one connection every client-initiated stream
\* has an odd id, the first one 1, and every server-initiated stream an even
\* id, the first one 2; the ids of one side are strictly increasing, all ids
\* are pairwise distinct, and the id of a stream that has terminated is not
\* given to a later stream.
C30_StreamIdAllocation ==
    /\ \A side \in Sides :
          /\ \A i \in 1..Len(IdsOf(side, Len(allocated))) :
                /\ IdsOf(side, Len(allocated))[i] % 2 = first_stream_id(side) % 2
                /\ IdsOf(side, Len(allocated))[i] >= first_stream_id(side)
                /\ i = 1 => IdsOf(side, Len(allocated))[i] = first_stream_id(side)
                /\ i > 1 => IdsOf(side, Len(allocated))[i]
                               > IdsOf(side, Len(allocated))[i - 1]
    /\ \A i, j \in 1..Len(allocated) : i # j => allocated[i].stream # allocated[j].stream
    /\ _streams \subseteq {allocated[i].stream : i \in 1..Len(allocated)}

\* C30 witness: the client's first stream has terminated and the client has
\* opened another, the server one as well.
C30_Witness ==
    /\ Len(allocated) = 3
    /\ allocated[1] = [side |-> "client", stream |-> 1]
    /\ allocated[2] = [side |-> "server", stream |-> 2]
    /\ allocated[3] = [side |-> "client", stream |-> 3]
    /\ _streams = {2, 3}

(***************************************************************************)
(* Properties of the arguments of route functions                          *)
(***************************************************************************)

\* What a parameter of a route function is to receive of a request: the parsed
\* composite metadata under the name composite_metadata; else the payload,
\* mapped by the payload mapper to the parameter's annotation unless that is
\* Payload or empty.
ArgumentOf(parameter, payload, composite_metadata) ==
    IF parameter.name = "composite_metadata" THEN composite_metadata
    ELSE IF parameter.annotation \in {"Payload", "empty"} THEN payload
    ELSE payload_mapper(parameter.annotation, payload)

\* C33: handler argument binding.  In every call route makes, each parameter
\* of the function is bound, composite_metadata to the parsed composite
\* metadata and every other parameter to the request's payload mapped to that
\* parameter's own annotation (the payload itself when it is unannotated or
\* annotated Payload), whatever the other parameters are and in whatever order.
C33_ArgumentBinding ==
    (last.op = "route" /\ last.raised = "none") =>
        \A i \in 1..Len(last.calls) :
            /\ DOMAIN last.calls[i].kwargs
                  = {signature(last.calls[i].function)[k].name :
                        k \in 1..Len(signature(last.calls[i].function))}
            /\ \A k \in 1..Len(signature(last.calls[i].function)) :
                  last.calls[i].kwargs[signature(last.calls[i].function)[k].name]
                     = ArgumentOf(signature(last.calls[i].function)[k],
                                  last.payload, last.composite_metadata)

(***************************************************************************)
(* Properties of registration                                              *)
(***************************************************************************)

UnknownRegistrations == {"response_unknown", "stream_unknown", "channel_unknown",
                         "fire_and_forget_unknown", "metadata_push_unknown"}

\* The frame type a registration operation is for.
FrameTypeOfOperation(op) ==
    CASE op \in {"response", "response_unknown"} -> REQUEST_RESPONSE
      [] op \in {"stream", "stream_unknown"} -> REQUEST_STREAM
      [] op \in {"channel", "channel_unknown"} -> REQUEST_CHANNEL
      [] op \in {"fire_and_forget", "fire_and_forget_unknown"} -> REQUEST_FNF
      [] op \in {"metadata_push", "metadata_push_unknown"} -> METADATA_PUSH

\* The function route calls for a frame type and a route (None: none).
CalledOf(routed) == IF routed.calls = << >> THEN None ELSE routed.calls[1].function

Dispatched(frame_type, r) == CalledOf(route(frame_type, r, "payload1", "composite1"))

\* C35: a registration that raises (empty route or duplicate) leaves the five
\* route tables and the fallbacks as they were, and after a rejected duplicate
\* route still calls the function that was registered first.
C35_FailedRegistrationChangesNothing ==
    /\ [][(last'.op \in NamedRegistrations /\ last'.raised # "none")
            => UNCHANGED << _channel_routes, _stream_routes, _response_routes,
                            _fnf_routes, _metadata_push, _unknown >>]_vars
    /\ []((last.op \in NamedRegistrations /\ last.raised = "KeyError")
            => /\ last.route \in DOMAIN TableOfOperation(last.op)
               /\ Dispatched(FrameTypeOfOperation(last.op), last.route)
                     = TableOfOperation(last.op)[last.route])

\* C35 witness: stream("a") was called with a second function and rejected as
\* a duplicate; the table still holds the first one.
C35_Witness ==
    /\ last.op = "stream"
    /\ last.route = "a"
    /\ last.raised = "KeyError"
    /\ _stream_routes["a"] # last.function

\* C36: the route tables of the frame types are independent.  A registration
\* of route r for one frame type succeeds exactly when r is not empty and is
\* not yet in the table of that same frame type, whatever the other tables
\* hold; and when it succeeds, that table gains r and every other table and
\* the fallbacks stay as they are.
C36_TablesIndependent ==
    [][last'.op \in NamedRegistrations
          => \A op \in {last'.op}, r \in {last'.route} :
                /\ last'.raised = "none"
                      <=> (safe_len(r) # 0 /\ r \notin DOMAIN TableOfOperation(op))
                /\ last'.raised = "none"
                      => /\ TableOfOperation(op)'
                               = (r :> last'.function) @@ TableOfOperation(op)
                         /\ \A other \in NamedRegistrations \ {op} :
                               TableOfOperation(other)' = TableOfOperation(other)
                         /\ _unknown' = _unknown]_vars

\* C36 witness: stream("a") succeeded on a router whose request/response table
\* already held "a".
C36_Witness ==
    /\ last.op = "stream"
    /\ last.route = "a"
    /\ last.raised = "none"
    /\ "a" \in DOMAIN _response_routes
    /\ "a" \in DOMAIN _stream_routes

\* C37: registering a fallback never raises; it replaces the fallback of its
\* frame type, whether there was one or not, so that route calls the function
\* registered last for a route that is not in the table, and it leaves the
\* other fallbacks and the five route tables as they were.
C37_UnknownReplaces ==
    [][last'.op \in UnknownRegistrations
          => \A op \in {last'.op} :
                /\ last'.raised = "none"
                /\ FallbackOfFrameType(FrameTypeOfOperation(op))' = last'.function
                /\ \A frame_type \in FrameType \ {FrameTypeOfOperation(op)} :
                      FallbackOfFrameType(frame_type)' = FallbackOfFrameType(frame_type)
                /\ UNCHANGED << _channel_routes, _stream_routes, _response_routes,
                                _fnf_routes, _metadata_push >>
                /\ \A r \in RequestRoutes :
                      r \notin DOMAIN TableOfFrameType(FrameTypeOfOperation(op))
                         => Dispatched(FrameTypeOfOperation(op), r)' = last'.function]_vars

\* C37 witness: response_unknown was called a second time, on a router whose
\* only registration was a response_unknown.
C37_Witness ==
    /\ last.op = "response_unknown"
    /\ registrations = 2
    /\ _unknown.response = last.function
    /\ \A frame_type \in FrameType \ {REQUEST_RESPONSE} :
          FallbackOfFrameType(frame_type) = None
    /\ \A table \in AllTables : table = EmptyDict

(***************************************************************************)
(* Properties of the stream tables                                         *)
(***************************************************************************)

Cancelled ==
    /\ requester.signals # << >>
    /\ requester.signals[Len(requester.signals)].signal = "cancelled"

\* The CANCEL frames among the frames sent to the server.
CancelFramesSent == SelectSeq(to_server, LAMBDA sent : sent.type = "CANCEL")

\* C32: cancel.  The cancel of a request that is open sends one CANCEL frame
\* for the stream and finishes the local stream; no second CANCEL is ever sent;
\* and from then on every frame that arrives for the stream is dropped: the
\* stream's entry stays as it is, no signal is delivered and no frame is sent.
C32_Cancel ==
    /\ [](CancelFramesSent = IF Cancelled THEN << CancelFrame >> ELSE << >>)
    /\ [][(~Cancelled /\ Cancelled')
            => /\ to_server' = Append(to_server, CancelFrame)
               /\ requester'.state = "finished"]_vars
    /\ [][Cancelled => (requester' = requester /\ to_server' = to_server)]_vars

\* C32 witness: the requester has cancelled, CANCEL is sent, and two frames of
\* the responder, a payload and an error, are on their way to it.
C32_Witness ==
    /\ Cancelled
    /\ requester.state = "finished"
    /\ CancelFramesSent = << CancelFrame >>
    /\ to_client = << PayloadFrame(Payload("Response", NoMetadata), TRUE, TRUE),
                      ErrorFrame("Some error from responder") >>

(***************************************************************************)
(* Properties of the route and the authentication of a request             *)
(***************************************************************************)

\* The entry at index i is the first of its kind in the last request.
IsFirst(i, kind) ==
    /\ i \in 1..Len(LastItems)
    /\ LastItems[i].kind = kind
    /\ \A j \in 1..(i - 1) : LastItems[j].kind # kind

\* The calls of the last request that are given a route.
RoutedEvents == SelectSeq(last.events, LAMBDA e : e.event \in {"verify", "router.route"})

\* C34: route extraction.  The route of a request is the first tag of its
\* first ROUTING entry: the verifier and the router are given that route,
\* whatever tags and ROUTING entries follow.  A request without a ROUTING entry
\* fails with 'No route found in request' before the verifier, the router or
\* any route function or fallback is called.
C34_RouteExtraction ==
    (last.op \in EntryPoints /\ last.payload.metadata.well_formed) =>
        /\ \A i \in 1..Len(LastItems) :
              (IsFirst(i, "RoutingMetadata") /\ LastItems[i].content # << >>)
                 => \A k \in 1..Len(RoutedEvents) :
                       RoutedEvents[k].route = LastItems[i].content[1]
        /\ (\A i \in 1..Len(LastItems) : LastItems[i].kind # "RoutingMetadata")
              => /\ last.exception = "No route found in request"
                 /\ last.value = ErrorValue(last.op)
                 /\ last.events = << >>

\* C34 witness: a request with two ROUTING entries, "b" and then "a", was
\* handed to the router with the route "b".
C34_Witness ==
    /\ last.op \in EntryPoints
    /\ LastItems = << Routing(<< "b" >>), Routing(<< "a" >>) >>
    /\ authentication_verifier = None
    /\ last.events # << >>
    /\ last.events[1] = RouteEvent("b")

\* C38: the verifier is called at most once for a request, with the route of
\* the request and the first AUTHENTICATION entry; an AUTHENTICATION entry
\* that follows is never given to it, and for a request without an
\* AUTHENTICATION entry it is not called.
C38_AuthenticatorOnceWithFirstEntry ==
    last.op \in EntryPoints =>
        /\ Len(VerifyEvents) <= 1
        /\ \A k \in 1..Len(VerifyEvents) :
              \E i \in 1..Len(LastItems), r \in 1..Len(LastItems) :
                 /\ IsFirst(i, "AuthenticationContent")
                 /\ IsFirst(r, "RoutingMetadata")
                 /\ VerifyEvents[k] = [event |-> "verify",
                                       route |-> LastItems[r].content[1],
                                       authentication |-> LastItems[i].content]
        /\ (\A i \in 1..Len(LastItems) : LastItems[i].kind # "AuthenticationContent")
              => VerifyEvents = << >>

\* C38 witness: a request with two AUTHENTICATION entries, one the verifier
\* accepts and then one it rejects, was verified once, with the first.
C38_Witness ==
    /\ last.op \in EntryPoints
    /\ authentication_verifier = "authenticator"
    /\ LastItems = << Routing(<< "a" >>), Authentication(<< "simple", "good" >>),
                      Authentication(<< "simple", "bad" >>) >>
    /\ VerifyEvents = << VerifyEvent("a", << "simple", "good" >>) >>

(***************************************************************************)
(* Properties of the lease                                                 *)
(***************************************************************************)

\* C39: a call of supply_lease sends one LEASE frame, with number_of_requests
\* = lease_max_requests and time_to_live = lease_ttl in milliseconds, exactly
\* when lease_ttl and lease_max_requests are both configured; when one of them
\* is missing it sends nothing.
C39_SupplyLease ==
    [][last'.op = "supply_lease"
          => IF _lease_ttl # Nothing /\ _lease_max_requests # Nothing
             THEN /\ Len(sent_frames') = Len(sent_frames) + 1
                  /\ SubSeq(sent_frames', 1, Len(sent_frames)) = sent_frames
                  /\ sent_frames'[Len(sent_frames')].type = "LEASE"
                  /\ sent_frames'[Len(sent_frames')].number_of_requests
                        = _lease_max_requests[1]
                  /\ sent_frames'[Len(sent_frames')].time_to_live = 1000 * _lease_ttl[1]
             ELSE sent_frames' = sent_frames]_vars

\* C39 witness: a handler with lease_ttl of 30 seconds and lease_max_requests
\* of 5 has sent its LEASE frame.
C39_Witness ==
    /\ last.op = "supply_lease"
    /\ _lease_ttl = Some(30)
    /\ _lease_max_requests = Some(5)
    /\ sent_frames = << [type |-> "LEASE", number_of_requests |-> 5,
                         time_to_live |-> 30000] >>

(***************************************************************************)
(* Properties of the initial frame of a channel without a subscription     *)
(***************************************************************************)

\* The step in which the server handles a frame that is not a request, for a
\* channel that is open.
OtherFrameHandled ==
    /\ to_server # << >>
    /\ Head(to_server).type \notin FrameType
    /\ to_server' = Tail(to_server)
    /\ responder.type = REQUEST_CHANNEL
    /\ responder.state = "open"

\* C40: when the initial REQUEST_CHANNEL frame is flagged complete and the
\* responder has no subscription, both steps are taken while that frame is
\* handled: one COMPLETE is sent and the remote subscriber is completed, so
\* that both directions are complete and the stream is finished; it stays
\* finished and the responder sends nothing more.  A frame that is not
\* REQUEST_CHANNEL takes neither step: it is handled by the common
\* frame_received.
C40_CompleteWithoutSubscription ==
    /\ [][(InitialFrameHandled /\ Head(to_server).flags_complete
              /\ responder'.publisher = NoPublisher)
            => /\ Completes(to_client') = Completes(to_client) + 1
               /\ to_client'[Len(to_client')] = PayloadFrame(EmptyPayload, FALSE, TRUE)
               /\ responder'.sent_complete
               /\ responder'.received_complete
               /\ responder'.state = "finished"
               /\ responder'.subscriber.present
                     => responder'.signals[Len(responder'.signals)]
                           = [signal |-> "on_complete"]]_vars
    /\ [][(responder.type = REQUEST_CHANNEL /\ responder.state = "finished")
            => /\ responder'.state = "finished"
               /\ responder'.signals = responder.signals
               /\ \/ to_client' = to_client
                  \/ to_client # << >> /\ to_client' = Tail(to_client)]_vars
    /\ [][OtherFrameHandled
            => \E common \in {super_frame_received(responder, Head(to_server))} :
                  /\ responder' = Accounted(common.entry, << Head(to_server) >>, common.sent)
                  /\ to_client' = to_client \o common.sent]_vars

\* C40 witness: the request was flagged complete and the handler returned a
\* subscriber and no publisher; the subscriber is completed, COMPLETE is on its
\* way to the requester and the responder's stream is finished.
C40_Witness ==
    /\ responder.type = REQUEST_CHANNEL
    /\ responder.publisher = NoPublisher
    /\ responder.subscriber.present
    /\ responder.state = "finished"
    /\ responder.signals = << [signal |-> "on_subscribe"], [signal |-> "on_complete"] >>
    /\ to_server = << >>
    /\ to_client = << PayloadFrame(EmptyPayload, FALSE, TRUE) >>

====
